---- MODULE Spec2Model ----
(***************************************************************************)
(* Reconciliation core of the Waldur Ansible collections: the runner's     *)
(* check-existence / plan / execute cycle, the Command objects it plans    *)
(* and executes, the polling loop of asynchronous operations, and the      *)
(* normalisation used by the idempotency check.                            *)
(*                                                                         *)
(* The backend is the environment: it applies or rejects each write it     *)
(* receives, answers an action synchronously (200) or asynchronously (202) *)
(* and moves a pending task to a final state on its own.                   *)
(***************************************************************************)
EXTENDS Integers, Sequences, FiniteSets, TLC

\* ------------------------------------------------------------------------
\* Bounds of the model
\* ------------------------------------------------------------------------

\* Number of successive runs of the module against the same backend.
MaxRuns == 2

\* The caller's `timeout`, in units of the polling `interval`.
MaxTimeout == 2

\* Number of polls of one order the request log records; later polls of a
\* loop that goes on are sent but not logged.
MaxPolls == 3

\* Length of the longest list of scalars given to the normaliser.
MaxLen == 3

\* ------------------------------------------------------------------------
\* Python values.  A scalar is a string; None is a string no user value
\* equals.  Lists, dicts, sets and JSON strings are tagged so that values of
\* different Python types are unequal, as they are for Python's == and !=.
\* ------------------------------------------------------------------------

PyNone == "<None>"

VNone == [t |-> "none"]
VStr(s) == [t |-> "str", v |-> s]
VDict(f) == [t |-> "dict", v |-> f]
VList(s) == [t |-> "list", v |-> s]
VSet(S) == [t |-> "set", v |-> S]
\* json.dumps(d, sort_keys=True, separators=(",", ":")): a string that is
\* equal for two dicts exactly when the dicts are equal, and is never equal
\* to a dict or to a plain string.
VJson(f) == [t |-> "json", v |-> f]

IsList(x) == x.t = "list"
IsDict(x) == x.t = "dict"
\* Python truthiness of a list value: a non-empty list.
NonEmptyList(x) == IsList(x) /\ Len(x.v) > 0

Range(s) == {s[i] : i \in 1..Len(s)}

\* dict.get(key): the value, or None when the key is missing.
DictGet(f, k) == IF k \in DOMAIN f THEN f[k] ELSE PyNone

\* A copy of the item that is never given a default.
apply_defaults_never(item, defaults_map) == item

\* _apply_defaults: a copy of the item with every key of defaults_map that
\* the item lacks added with its default value.
apply_defaults(item, defaults_map) ==
    [k \in (DOMAIN item) \cup (DOMAIN defaults_map) |->
        IF k \in DOMAIN item THEN item[k] ELSE defaults_map[k]]

\* {key: item.get(key) for key in keys_to_use}
ProjectOnto(item, keys) == [k \in Range(keys) |-> DictGet(item, k)]

\* A normaliser that leaves every value as it is.
normalize_nothing(value, idempotency_keys, defaults_map) == value

\* A normaliser that makes a set of whatever it is given.
normalize_to_set(value, idempotency_keys, defaults_map) ==
    VSet(IF IsList(value) THEN Range(value.v) ELSE {value})

\* A normaliser that keeps a non-empty list as the list it is.
normalize_keeping_order(value, idempotency_keys, defaults_map) ==
    IF IsList(value) /\ Len(value.v) = 0 THEN VSet({}) ELSE value

\* A normaliser that trusts the first item to tell the kind of every item.
normalize_trusting_first_item(value, idempotency_keys, defaults_map) ==
    IF ~IsList(value) THEN value
    ELSE IF Len(value.v) = 0 THEN VSet({})
    ELSE IF Len(idempotency_keys) > 0 /\ IsDict(value.v[1])
    THEN VSet({VJson(ProjectOnto(IF IsDict(value.v[i])
                                 THEN apply_defaults(value.v[i].v, defaults_map)
                                 ELSE defaults_map,
                                 idempotency_keys)) : i \in 1..Len(value.v)})
    ELSE VSet(Range(value.v))

\* _normalize_for_comparison(value, idempotency_keys, defaults_map)
normalize_for_comparison(value, idempotency_keys, defaults_map) ==
    IF ~IsList(value) THEN value
    ELSE IF Len(value.v) = 0 THEN VSet({})
    ELSE IF Len(idempotency_keys) > 0 /\ IsDict(value.v[1])
    THEN \* Mode A: list of dicts reduced to a set of canonical JSON strings
         IF \E i \in 1..Len(value.v) : ~IsDict(value.v[i])
         THEN value
         ELSE VSet({VJson(ProjectOnto(apply_defaults(value.v[i].v, defaults_map),
                                      idempotency_keys)) : i \in 1..Len(value.v)})
    ELSE \* Mode B: set(value), or the list itself when an item is unhashable
         IF \E i \in 1..Len(value.v) : IsDict(value.v[i])
         THEN value
         ELSE VSet(Range(value.v))

\* OrderRunner._normalize_for_comparison(value, idempotency_keys) of the
\* openstack collection: no defaults, and nothing is done without keys.
OrderRunner_normalize_for_comparison(value, idempotency_keys) ==
    IF Len(idempotency_keys) = 0 \/ ~IsList(value) THEN value
    ELSE IF \E i \in 1..Len(value.v) : ~IsDict(value.v[i])
    THEN value
    ELSE VSet({VJson(ProjectOnto(value.v[i].v, idempotency_keys)) : i \in 1..Len(value.v)})

\* ------------------------------------------------------------------------
\* Optional objects (Python's None or a dict) as sequences of length 0 or 1
\* ------------------------------------------------------------------------

None == <<>>
Some(x) == <<x>>
\* Python truthiness of an optional object: `if self.resource:`
Truthy(o) == Len(o) > 0
The(o) == o[1]

\* ------------------------------------------------------------------------
\* The backend's directory of related objects, searched by the resolver
\* ------------------------------------------------------------------------

Names == {"sg-a", "sg-b", "net-a", "net-b", "proj", "off"}

\* The `url` field of the single object the backend returns for a name.
UrlOf(name) ==
    CASE name = "sg-a" -> "/sg/a/"
      [] name = "sg-b" -> "/sg/b/"
      [] name = "net-a" -> "/net/a/"
      [] name = "net-b" -> "/net/b/"
      [] name = "proj" -> "/proj/p/"
      [] name = "off" -> "/off/o/"

\* ------------------------------------------------------------------------
\* Driver configurations (the runner's `context`)
\* ------------------------------------------------------------------------

NoDefaults == [k \in {} |-> PyNone]

\* The configured update actions (ActionSpec).  `resolver` tells how the
\* parameter's value is resolved: "is_list" is a list of names resolved item
\* by item (security groups), "subnet" a list of objects whose `subnet` field
\* is resolved (ports), "none" a list of plain values with no resolver (rules).
\* A port may also state its `ip`; the backend assigns one when it does not.
SecurityGroups ==
    [param |-> "items", compare_key |-> "items", path |-> "update_items",
     resolver |-> "is_list", idempotency_keys |-> <<>>,
     defaults_map |-> NoDefaults, wrap_in_object |-> TRUE]

Rules ==
    [param |-> "rules", compare_key |-> "rules", path |-> "set_rules",
     resolver |-> "none", idempotency_keys |-> <<>>,
     defaults_map |-> NoDefaults, wrap_in_object |-> FALSE]

Ports(keys, defaults) ==
    [param |-> "items", compare_key |-> "items", path |-> "update_items",
     resolver |-> "subnet", idempotency_keys |-> keys,
     defaults_map |-> defaults, wrap_in_object |-> FALSE]

\* The ip the backend assigns to a port that states none.
AssignedIp == "auto"

Contexts ==
    { [update_actions |-> <<SecurityGroups, Rules>>, wait_config |-> TRUE,
       update_fields |-> <<"description", "title">>,
       required_for_create |-> <<"project", "title">>],
      [update_actions |-> <<Ports(<<"subnet">>, NoDefaults)>>, wait_config |-> FALSE,
       update_fields |-> <<"description", "title">>, required_for_create |-> <<"project">>],
      [update_actions |-> <<Ports(<<>>, NoDefaults)>>, wait_config |-> TRUE,
       update_fields |-> <<"description", "title">>, required_for_create |-> <<"project">>],
      [update_actions |-> <<Ports(<<"subnet", "ip">>, NoDefaults)>>, wait_config |-> FALSE,
       update_fields |-> <<"description", "title">>, required_for_create |-> <<"project">>],
      [update_actions |-> <<Ports(<<"subnet", "ip">>, [ip |-> AssignedIp])>>,
       wait_config |-> FALSE,
       update_fields |-> <<"description", "title">>, required_for_create |-> <<"project">>] }

\* The action configured for a parameter, if any.
ActionsFor(c, param) == SelectSeq(c.update_actions, LAMBDA ai : ai.param = param)

\* ------------------------------------------------------------------------
\* The user's parameters (module.params)
\* ------------------------------------------------------------------------

NameLists ==
    { <<>>, <<VStr("sg-a")>>, <<VStr("sg-a"), VStr("sg-b")>>,
      <<VStr("sg-b"), VStr("sg-a")>> }

Port(n) == VDict([subnet |-> n])

PortWithIp(n, ip) == VDict([subnet |-> n, ip |-> ip])

PortLists ==
    { <<>>, <<Port("net-a")>>, <<Port("net-a"), Port("net-b")>>,
      <<Port("net-b"), Port("net-a")>>, <<PortWithIp("net-a", "10.0.0.1")>>,
      <<PortWithIp("net-a", "10.0.0.1"), Port("net-b")>> }

RuleLists == { <<VStr("tcp")>> }

\* The values the user may give for a parameter: None, or a list of the kind
\* the parameter's action manages; None only when no action manages it.
Desired(c, param) ==
    LET ais == ActionsFor(c, param)
    IN  {VNone} \cup
        (IF Len(ais) = 0 THEN {}
         ELSE {VList(l) : l \in CASE ais[1].resolver = "is_list" -> NameLists
                                   [] ais[1].resolver = "subnet" -> PortLists
                                   [] OTHER -> RuleLists})

ParamSets(c) ==
    [state : {"present", "absent"},
     wait : BOOLEAN,
     description : {PyNone, "old", "new"},
     title : {PyNone, "t"},
     project : {PyNone, "proj"},
     items : Desired(c, "items"),
     rules : Desired(c, "rules"),
     timeout : {MaxTimeout},
     interval : {1}]

\* ------------------------------------------------------------------------
\* Backend resources of the managed type
\* ------------------------------------------------------------------------

\* What the backend stores for one item of an action payload: the rich
\* object, with the fields only the server sets.
Rich(ai, item) ==
    CASE ai.resolver = "is_list" -> VDict([url |-> item.v, name |-> "n"])
      [] ai.resolver = "subnet" ->
           VDict([subnet |-> DictGet(item.v, "subnet"),
                  ip |-> IF "ip" \in DOMAIN item.v THEN item.v.ip ELSE AssignedIp,
                  mac |-> "m"])
      [] OTHER -> item

Reverse(s) == [i \in 1..Len(s) |-> s[Len(s) + 1 - i]]

\* The lists the backend may return for a stored payload: collections are
\* unordered on the backend, so any order of the stored items.
StoredItems(ai, payload) ==
    LET rich == [i \in 1..Len(payload.v) |-> Rich(ai, payload.v[i])]
    IN  {VList(rich), VList(Reverse(rich))}

\* ------------------------------------------------------------------------
\* Parameter resolution (names to backend URLs), with the resolver's cache
\* ------------------------------------------------------------------------

\* ParameterResolver.resolve on an action-managed parameter: every name is
\* replaced by the url of the object found for it; a value with no resolver
\* passes through unchanged.
resolve(ai, value) ==
    IF ~IsList(value) THEN value
    ELSE CASE ai.resolver = "is_list" ->
                VList([i \in 1..Len(value.v) |-> VStr(UrlOf(value.v[i].v))])
           [] ai.resolver = "subnet" ->
                VList([i \in 1..Len(value.v) |->
                         VDict([k \in DOMAIN value.v[i].v |->
                                  IF k = "subnet" THEN UrlOf(value.v[i].v[k])
                                  ELSE value.v[i].v[k]])])
           [] OTHER -> value

\* The (parameter name, value) pairs resolve() looks up, in list order.
LookupKeys(ai, value) ==
    IF ~IsList(value) \/ ai.resolver = "none" THEN <<>>
    ELSE [i \in 1..Len(value.v) |->
            IF ai.resolver = "is_list" THEN <<ai.param, value.v[i].v>>
            ELSE <<"subnet", DictGet(value.v[i].v, "subnet")>>]

\* The lookups of every action-managed parameter from the i-th on.
RECURSIVE ActionLookupKeys(_, _, _)
ActionLookupKeys(c, p, i) ==
    IF i > Len(c.update_actions) THEN <<>>
    ELSE LookupKeys(c.update_actions[i], p[c.update_actions[i].param])
         \o ActionLookupKeys(c, p, i + 1)

\* The lookups that reach the backend: the keys not yet in the cache, once each.
RECURSIVE Misses(_, _)
Misses(keys, cached) ==
    IF Len(keys) = 0 THEN <<>>
    ELSE IF keys[1] \in cached THEN Misses(Tail(keys), cached)
    ELSE <<keys[1]>> \o Misses(Tail(keys), cached \cup {keys[1]})

\* One request of the run's log.
\* One request of the run's log: its method, what it is sent for, the
\* position in the plan of the command it belongs to (0 for none) and the
\* status the backend answered with.
Req(method, what, op, status) ==
    [method |-> method, what |-> what, op |-> op, status |-> status]

LookupReqs(keys) == [i \in 1..Len(keys) |-> Req("GET", "resolve", 0, 200)]

\* ------------------------------------------------------------------------
\* Commands (Command.__init__)
\* ------------------------------------------------------------------------

Command(command_type, method, path, data, path_uuid, wait_config) ==
    [command_type |-> command_type, method |-> method, path |-> path,
     data |-> data, path_uuid |-> path_uuid, wait_config |-> wait_config]

NoData == [t |-> "nodata"]

\* ------------------------------------------------------------------------
\* Planning
\* ------------------------------------------------------------------------

\* The required parameters the user did not supply.
MissingRequired(c, p) ==
    SelectSeq(c.required_for_create, LAMBDA key : p[key] = PyNone)

RECURSIVE JoinKeys(_)
JoinKeys(keys) ==
    IF Len(keys) = 0 THEN ""
    ELSE IF Len(keys) = 1 THEN keys[1]
    ELSE keys[1] \o "," \o JoinKeys(Tail(keys))

\* The message of a failure for required parameters: the parameters it names.
RequiredMessage(keys) == "required:" \o JoinKeys(keys)

\* The failure of plan_creation's validation loop: fail_json ends the run at
\* the first required parameter that is None.
RequiredFailure(c, p) == RequiredMessage(<<MissingRequired(c, p)[1]>>)

\* CrudRunner.plan_creation: the payload holds every supplied model
\* parameter, resolved; the plan is one create command.
CreatePayload(c, p) ==
    [t |-> "create",
     project |-> IF p.project = PyNone THEN PyNone ELSE UrlOf(p.project),
     description |-> p.description,
     title |-> p.title,
     items |-> IF Len(ActionsFor(c, "items")) = 0 THEN p.items
               ELSE resolve(ActionsFor(c, "items")[1], p.items),
     rules |-> p.rules]

\* A creation plan that holds the create command twice.
plan_creation_twice(c, p) ==
    <<Command("create", "POST", "create_path", CreatePayload(c, p), PyNone, None),
      Command("create", "POST", "create_path", CreatePayload(c, p), PyNone, None)>>

plan_creation(c, p) ==
    <<Command("create", "POST", "create_path", CreatePayload(c, p), PyNone, None)>>

CreationLookupKeys(c, p) ==
    (IF p.project = PyNone THEN <<>> ELSE << <<"project", p.project>> >>)
    \o ActionLookupKeys(c, p, 1)

\* A change detection that records every supplied update field, changed or not.
ChangesOfSuppliedFields(c, p, res) ==
    LET fields == SelectSeq(c.update_fields, LAMBDA field : p[field] # PyNone)
    IN  [i \in 1..Len(fields) |->
            [param |-> fields[i], old |-> res[fields[i]], new |-> p[fields[i]]]]

\* The changes _build_simple_update_command detects: one record for every
\* update field the user supplied with a value other than the current one.
Changes(c, p, res) ==
    LET changed(field) == p[field] # PyNone /\ p[field] # res[field]
        fields == SelectSeq(c.update_fields, changed)
    IN  [i \in 1..Len(fields) |->
            [param |-> fields[i], old |-> res[fields[i]], new |-> p[fields[i]]]]

build_simple_update_command(c, p, resource) ==
    IF ~(Truthy(resource) /\ Len(c.update_fields) > 0) THEN <<>>
    ELSE LET changes == Changes(c, p, The(resource))
         IN  IF Len(changes) = 0 THEN <<>>
             ELSE <<Command("update", "PATCH", "update_path",
                            [t |-> "update", changes |-> changes],
                            The(resource).uuid, None)>>

\* The current value compared with every key it holds.
KeyFilteredNot(param_value, resource_value) == resource_value

\* The current value projected onto the keys the user supplied.
KeyFiltered(param_value, resource_value) ==
    IF NonEmptyList(param_value) /\ NonEmptyList(resource_value)
       /\ IsDict(param_value.v[1]) /\ IsDict(resource_value.v[1])
    THEN LET user_provided_keys ==
                 UNION {IF IsDict(param_value.v[i]) THEN DOMAIN param_value.v[i].v ELSE {}
                        : i \in 1..Len(param_value.v)}
         IN  IF user_provided_keys = {} THEN resource_value
             ELSE VList([i \in 1..Len(resource_value.v) |->
                     IF IsDict(resource_value.v[i])
                     THEN VDict([k \in (DOMAIN resource_value.v[i].v) \cap user_provided_keys
                                   |-> resource_value.v[i].v[k]])
                     ELSE resource_value.v[i]])
    ELSE resource_value

\* [item.get("url") for item in resource_value if item.get("url") is not None]
UrlsOf(resource_value) ==
    LET kept == SelectSeq(resource_value.v, LAMBDA it : DictGet(it.v, "url") # PyNone)
    IN  VList([i \in 1..Len(kept) |-> VStr(kept[i].v.url)])

\* A normalisation of the current value that never reduces rich objects to
\* their references.
NormalizedOldSameShape(ai, param_value, resolved_payload, compare_value) ==
    normalize_for_comparison(KeyFiltered(param_value, compare_value),
                             ai.idempotency_keys, ai.defaults_map)

\* The two normalised values _build_action_update_commands compares.
NormalizedOld(ai, param_value, resolved_payload, compare_value) ==
    LET resource_value == KeyFiltered(param_value, compare_value)
        is_simple_list_payload ==
            NonEmptyList(resolved_payload) /\ ~IsDict(resolved_payload.v[1])
        is_complex_list_resource ==
            NonEmptyList(resource_value) /\ IsDict(resource_value.v[1])
    IN  IF is_simple_list_payload /\ is_complex_list_resource
        THEN normalize_for_comparison(UrlsOf(resource_value), <<>>, ai.defaults_map)
        ELSE normalize_for_comparison(resource_value, ai.idempotency_keys, ai.defaults_map)

NormalizedNew(ai, resolved_payload) ==
    normalize_for_comparison(resolved_payload, ai.idempotency_keys, ai.defaults_map)

ActionWaitConfig(c) ==
    IF c.wait_config
    THEN Some([location |-> "resource", key |-> "uuid", refetch_resource |-> FALSE])
    ELSE None

\* The command planned for one configured action: none when the parameter
\* is not supplied or its normalised value equals the current one.
ActionCommand(c, ai, p, resource) ==
    IF p[ai.param] = VNone THEN <<>>
    ELSE LET resolved_payload == resolve(ai, p[ai.param])
         IN  IF NormalizedNew(ai, resolved_payload)
                  # NormalizedOld(ai, p[ai.param], resolved_payload,
                                  The(resource)[ai.compare_key])
             THEN <<Command("action", "POST", ai.path,
                            [t |-> "action", wrapped |-> ai.wrap_in_object,
                             v |-> resolved_payload],
                            The(resource).uuid, ActionWaitConfig(c))>>
             ELSE <<>>

RECURSIVE ActionCommandsFrom(_, _, _, _)
ActionCommandsFrom(c, p, resource, i) ==
    IF i > Len(c.update_actions) THEN <<>>
    ELSE ActionCommand(c, c.update_actions[i], p, resource)
         \o ActionCommandsFrom(c, p, resource, i + 1)

build_action_update_commands(c, p, resource) ==
    IF ~(Truthy(resource) /\ Len(c.update_actions) > 0) THEN <<>>
    ELSE ActionCommandsFrom(c, p, resource, 1)

\* An update plan with the actions ahead of the simple update.
plan_update_actions_first(c, p, resource) ==
    build_action_update_commands(c, p, resource)
    \o build_simple_update_command(c, p, resource)

\* CrudRunner.plan_update: the simple update first, then the actions.
plan_update(c, p, resource) ==
    build_simple_update_command(c, p, resource)
    \o build_action_update_commands(c, p, resource)

\* CrudRunner.plan_deletion
plan_deletion(resource) ==
    <<Command("delete", "DELETE", "destroy_path", NoData, The(resource).uuid, None)>>

\* A dispatch that plans an update for an existing resource whatever the
\* desired state is.
PlannerIgnoringState(state, resource) ==
    IF Truthy(resource) THEN "plan_update"
    ELSE IF state = "present" THEN "plan_creation" ELSE "none"

\* BaseRunner.run, step 2: which planning method builds the plan.
Planner(state, resource) ==
    IF Truthy(resource)
    THEN IF state = "present" THEN "plan_update"
         ELSE IF state = "absent" THEN "plan_deletion" ELSE "none"
    ELSE IF state = "present" THEN "plan_creation" ELSE "none"

\* ------------------------------------------------------------------------
\* The backend: how it answers and applies a write
\* ------------------------------------------------------------------------

\* The status codes the backend may answer a command's request with.
Statuses(cmd) ==
    CASE cmd.command_type = "create" -> {201, 400}
      [] cmd.command_type = "update" -> {200, 400}
      [] cmd.command_type = "action" -> {200, 202, 400}
      [] cmd.command_type = "delete" -> {204, 400}
      [] cmd.command_type = "order" -> {201, 400}

NewResource(uuid, data, items, rules) ==
    [uuid |-> uuid,
     description |-> IF data.description = PyNone THEN "" ELSE data.description,
     title |-> IF data.title = PyNone THEN "" ELSE data.title,
     items |-> items, rules |-> rules, state |-> "OK"]

\* The lists the backend may store for a parameter of a create payload.
Created(c, param, value) ==
    IF ~IsList(value) THEN {VList(<<>>)}
    ELSE StoredItems(ActionsFor(c, param)[1], value)

\* The action an action command's path stands for.
ActionOf(c, cmd) == (SelectSeq(c.update_actions, LAMBDA ai : ai.path = cmd.path))[1]

\* The dict of new values a PATCH carries: {param: new for each change}.
UpdatePayload(changes) ==
    [k \in {changes[i].param : i \in 1..Len(changes)} |->
        (CHOOSE ch \in Range(changes) : ch.param = k).new]

\* dict.update: every key of `other` replaced or added, the rest kept.
DictUpdate(d, other) ==
    [k \in (DOMAIN d) \cup (DOMAIN other) |-> IF k \in DOMAIN other THEN other[k] ELSE d[k]]

\* The backend states after it answered the request of `cmd` with `status`:
\* a rejected request changes nothing.
BackendApply(c, b, cmd, status) ==
    CASE status >= 400 -> {b}
      [] cmd.command_type = "create" ->
           {Append(b, NewResource(IF Len(b) = 0 THEN "r1" ELSE "r2",
                                  cmd.data, items, rules)) :
              items \in Created(c, "items", cmd.data.items),
              rules \in Created(c, "rules", cmd.data.rules)}
      [] cmd.command_type = "update" ->
           {[i \in 1..Len(b) |->
               IF b[i].uuid = cmd.path_uuid
               THEN DictUpdate(b[i], UpdatePayload(cmd.data.changes)) ELSE b[i]]}
      [] cmd.command_type = "action" ->
           {[i \in 1..Len(b) |->
               IF b[i].uuid = cmd.path_uuid
               THEN [b[i] EXCEPT ![ActionOf(c, cmd).compare_key] = items,
                                 !.state = IF status = 202 THEN "Pending" ELSE "OK"]
               ELSE b[i]] : items \in StoredItems(ActionOf(c, cmd), cmd.data.v)}
      [] cmd.command_type = "delete" ->
           {SelectSeq(b, LAMBDA r : r.uuid # cmd.path_uuid)}
      [] cmd.command_type = "order" -> {b}

\* The shapes of a response body.
Shapes(cmd) == IF cmd.command_type = "update" THEN {"full", "partial", "empty"} ELSE {"full"}

\* The parsed body send_request returns for the request of `cmd`, given the
\* backend state after the request: None for an empty body.
ResponseBody(b, cmd, shape) ==
    CASE cmd.command_type = "create" -> IF Len(b) = 0 THEN None ELSE Some(b[Len(b)])
      [] cmd.command_type = "update" ->
           IF shape = "empty" \/ Len(b) = 0 THEN None
           ELSE IF shape = "partial"
           THEN Some([k \in DOMAIN UpdatePayload(cmd.data.changes) |-> b[1][k]])
           ELSE Some(b[1])
      [] cmd.command_type = "action" -> None
      [] cmd.command_type = "delete" -> None
      [] cmd.command_type = "order" -> Some([uuid |-> "o1", state |-> "pending"])

\* A status check that lets client errors through.
IsErrorStatusOnlyServer(status) == status >= 500

\* send_request: `if status_code >= 400:` fails the module.
IsErrorStatus(status) == status >= 400

\* ------------------------------------------------------------------------
\* execute_change_plan: the runner's resource after a command returned
\* ------------------------------------------------------------------------

\* A state update that keeps the resource after a delete.
StateAfterKeepingDeleted(cmd, resource, result) ==
    CASE cmd.command_type = "create" -> result
      [] cmd.command_type = "order" -> None
      [] cmd.command_type = "update" /\ Truthy(resource) /\ Truthy(result) ->
           Some(DictUpdate(The(resource), The(result)))
      [] OTHER -> resource

StateAfter(cmd, resource, result) ==
    CASE cmd.command_type = "create" -> result
      [] cmd.command_type = "order" -> None
      [] cmd.command_type = "delete" -> None
      [] cmd.command_type = "update" /\ Truthy(resource) /\ Truthy(result) ->
           Some(DictUpdate(The(resource), The(result)))
      [] OTHER -> resource

\* The uuid to poll: None when the configured source does not hold one.
UuidToPoll(wait_config, resource, result) ==
    IF wait_config.location = "result_body" /\ Truthy(result)
    THEN (IF wait_config.key \in DOMAIN The(result)
          THEN Some(The(result)[wait_config.key]) ELSE None)
    ELSE IF wait_config.location = "resource" /\ Truthy(resource)
    THEN (IF wait_config.key \in DOMAIN The(resource)
          THEN Some(The(resource)[wait_config.key]) ELSE None)
    ELSE None

\* ------------------------------------------------------------------------
\* State
\* ------------------------------------------------------------------------

VARIABLES
    ctx,          \* the driver's context
    params,       \* module.params, the same for every run
    check_mode,   \* module.check_mode of the current run
    backend,      \* the backend's resources that carry the target's name
    orders,       \* the backend's marketplace orders
    run,          \* number of the current run
    pc,           \* position of the current run
    resource,     \* runner.resource
    plan,         \* runner.plan
    planner,      \* the planning method the run called
    has_changed,  \* runner.has_changed
    idx,          \* position in the plan of the command being handled
    poll_uuid,    \* uuid the polling loop polls
    elapsed,      \* time waited in the polling loop
    cache,        \* the resolver's cache: the (name, value) keys it holds
    reqs,         \* requests the current run sent, in order
    executed,     \* per command of the plan: the number of execute() calls
    response,     \* per command: command.response
    status_code,  \* per command: command.status_code
    stage,        \* per command: "planned", "waiting" or "finished"
    polled,       \* polled_data of the last poll
    outcome,      \* what the run reported when it ended
    hist          \* the outcomes of the earlier runs

vars == <<ctx, params, check_mode, backend, orders, run, pc, resource, plan, planner,
          has_changed, idx, poll_uuid, elapsed, cache, reqs, executed, response,
          status_code, stage, polled, outcome, hist>>

Running == [kind |-> "running", error |-> "", changed |-> FALSE, resource |-> None]

\* An exit that reports a change whatever has_changed is.
exit_always_changed(changed, res) ==
    [kind |-> "exit", error |-> "", changed |-> TRUE, resource |-> res]

\* module.exit_json(changed=self.has_changed, resource=self.resource, ...)
exit(changed, res) == [kind |-> "exit", error |-> "", changed |-> changed, resource |-> res]

\* module.fail_json(msg=...)
fail_json(error) == [kind |-> "fail", error |-> error, changed |-> FALSE, resource |-> None]

Existing(items) ==
    [uuid |-> "r1", description |-> "old", title |-> "u", items |-> items,
     rules |-> VList(<<>>), state |-> "OK"]

InitialItems(c) ==
    IF c.update_actions[1].resolver = "is_list"
    THEN {VList(<<>>), VList(<<Rich(c.update_actions[1], VStr("/sg/a/"))>>)}
    ELSE {VList(<<Rich(c.update_actions[1], VDict([subnet |-> "/net/a/"]))>>)}

\* The backend holds no resource of the target's name, one, or two.
InitialBackends(c) ==
    {<<>>}
    \cup {<<Existing(it)>> : it \in InitialItems(c)}
    \cup {<<Existing(VList(<<>>)), [Existing(VList(<<>>)) EXCEPT !.uuid = "r2"]>>}

\* The runner as constructed: BaseRunner.__init__ and ParameterResolver.__init__
FreshRunner ==
    /\ pc = "check_existence"
    /\ resource = None
    /\ plan = <<>>
    /\ planner = "none"
    /\ has_changed = FALSE
    /\ idx = 0
    /\ poll_uuid = ""
    /\ elapsed = 0
    /\ cache = {}
    /\ reqs = <<>>
    /\ executed = <<>>
    /\ response = <<>>
    /\ status_code = <<>>
    /\ stage = <<>>
    /\ polled = None
    /\ outcome = Running

Init ==
    /\ ctx \in Contexts
    /\ params \in ParamSets(ctx)
    /\ check_mode \in BOOLEAN
    /\ backend \in InitialBackends(ctx)
    /\ orders = <<>>
    /\ run = 1
    /\ hist = <<>>
    /\ FreshRunner

Writes(rs) == SelectSeq(rs, LAMBDA r : r.method # "GET")

\* The run ends with fail_json.
Fail(error) ==
    /\ pc' = "failed"
    /\ outcome' = fail_json(error)

\* The run ends with exit_json.
Exit(changed, res) ==
    /\ pc' = "exited"
    /\ outcome' = exit(changed, res)

\* BaseRunner.check_existence, as the first step of run()
CheckExistence ==
    /\ pc = "check_existence"
    /\ LET keys == IF params.project # PyNone THEN << <<"project", params.project>> >>
                   ELSE <<>>
       IN  /\ reqs' = reqs \o LookupReqs(Misses(keys, cache))
                           \o <<Req("GET", "check_existence", 0, 200)>>
           /\ cache' = cache \cup Range(keys)
    /\ IF Len(backend) > 1
       THEN Fail("Ambiguous") /\ UNCHANGED resource
       ELSE /\ resource' = backend
            /\ pc' = "plan"
            /\ UNCHANGED outcome
    /\ UNCHANGED <<ctx, params, orders,
                   check_mode, backend, run, plan, planner, has_changed,
                   idx, poll_uuid, elapsed, executed, response, status_code, stage,
                   polled, hist>>

\* BaseRunner.run, step 2: the plan is built by the planning method chosen
\* from the desired state and the resource's existence.
BuildPlan ==
    /\ pc = "plan"
    /\ planner' = Planner(params.state, resource)
    /\ LET keys == CASE planner' = "plan_creation" -> CreationLookupKeys(ctx, params)
                     [] planner' = "plan_update" -> ActionLookupKeys(ctx, params, 1)
                     [] OTHER -> <<>>
       IN  IF planner' = "plan_creation" /\ Len(MissingRequired(ctx, params)) > 0
           THEN /\ Fail(RequiredFailure(ctx, params))
                /\ UNCHANGED <<plan, reqs, cache, executed, response, status_code, stage>>
           ELSE /\ plan' = CASE planner' = "plan_creation" -> plan_creation(ctx, params)
                             [] planner' = "plan_update" -> plan_update(ctx, params, resource)
                             [] planner' = "plan_deletion" -> plan_deletion(resource)
                             [] OTHER -> <<>>
                /\ reqs' = reqs \o LookupReqs(Misses(keys, cache))
                /\ cache' = cache \cup Range(keys)
                /\ executed' = [i \in 1..Len(plan') |-> 0]
                /\ response' = [i \in 1..Len(plan') |-> None]
                /\ status_code' = [i \in 1..Len(plan') |-> 0]
                /\ stage' = [i \in 1..Len(plan') |-> "planned"]
                /\ pc' = "mode"
                /\ UNCHANGED outcome
    /\ UNCHANGED <<ctx, params, orders,
                   check_mode, backend, run, resource, has_changed, idx,
                   poll_uuid, elapsed, polled, hist>>

\* A check-mode branch that does not exit: the run falls through to the
\* execution of the plan.
handle_check_mode_falls_through ==
    /\ pc = "mode"
    /\ check_mode
    /\ has_changed' = IF Len(plan) > 0 THEN TRUE ELSE has_changed
    /\ IF Len(plan) = 0
       THEN Exit(has_changed', resource) /\ UNCHANGED idx
       ELSE idx' = 1 /\ pc' = "execute" /\ UNCHANGED outcome
    /\ UNCHANGED <<ctx, params, orders,
                   check_mode, backend, run, resource, plan, planner,
                   poll_uuid, elapsed, cache, reqs, executed, response, status_code,
                   stage, polled, hist>>

\* A check mode that reports the planned change on the first run only.
handle_check_mode_first_only ==
    /\ pc = "mode"
    /\ check_mode
    /\ has_changed' = IF Len(plan) > 0 /\ run = 1 THEN TRUE ELSE has_changed
    /\ Exit(has_changed', resource)
    /\ UNCHANGED <<ctx, params, orders,
                   check_mode, backend, run, resource, plan, planner, idx,
                   poll_uuid, elapsed, cache, reqs, executed, response, status_code,
                   stage, polled, hist>>

\* BaseRunner.handle_check_mode
handle_check_mode ==
    /\ pc = "mode"
    /\ check_mode
    /\ has_changed' = IF Len(plan) > 0 THEN TRUE ELSE has_changed
    /\ Exit(has_changed', resource)
    /\ UNCHANGED <<ctx, params, orders,
                   check_mode, backend, run, resource, plan, planner, idx,
                   poll_uuid, elapsed, cache, reqs, executed, response, status_code,
                   stage, polled, hist>>

\* BaseRunner.execute_change_plan up to its loop; run() exits at once when
\* the plan is empty.
execute_change_plan ==
    /\ pc = "mode"
    /\ ~check_mode
    /\ IF Len(plan) = 0
       THEN /\ Exit(has_changed, resource)
            /\ UNCHANGED <<has_changed, idx>>
       ELSE /\ has_changed' = TRUE
            /\ idx' = 1
            /\ pc' = "execute"
            /\ UNCHANGED outcome
    /\ UNCHANGED <<ctx, params, orders,
                   check_mode, backend, run, resource, plan, planner,
                   poll_uuid, elapsed, cache, reqs, executed, response, status_code,
                   stage, polled, hist>>

\* A loop that handles every command a second time before it goes on.
AdvanceRepeating(r) ==
    IF executed[idx] = 0
    THEN /\ pc' = "execute"
         /\ UNCHANGED <<stage, idx, outcome>>
    ELSE /\ stage' = [stage EXCEPT ![idx] = "finished"]
         /\ IF idx < Len(plan)
            THEN /\ idx' = idx + 1
                 /\ pc' = "execute"
                 /\ UNCHANGED outcome
            ELSE /\ Exit(has_changed, r)
                 /\ UNCHANGED idx

\* A loop that goes from any command straight to the last one.
AdvanceToLast(r) ==
    /\ stage' = [stage EXCEPT ![idx] = "finished"]
    /\ IF idx < Len(plan)
       THEN /\ idx' = Len(plan)
            /\ pc' = "execute"
            /\ UNCHANGED outcome
       ELSE /\ Exit(has_changed, r)
            /\ UNCHANGED idx

\* The handling of command idx is over, with the runner's resource r:
\* the loop goes on to the next command, or run() exits after the last.
Advance(r) ==
    /\ stage' = [stage EXCEPT ![idx] = "finished"]
    /\ IF idx < Len(plan)
       THEN /\ idx' = idx + 1
            /\ pc' = "execute"
            /\ UNCHANGED outcome
       ELSE /\ Exit(has_changed, r)
            /\ UNCHANGED idx

\* One iteration of execute_change_plan's loop: command.execute() sends the
\* command's request, the runner's resource is updated by command type, and
\* the polling loop is entered when the command has a wait_config.
ExecuteCommand ==
    /\ pc = "execute"
    /\ LET cmd == plan[idx]
       IN  \E status \in Statuses(cmd) :
             /\ reqs' = Append(reqs, Req(cmd.method, "execute", idx, status))
             /\ executed' = [executed EXCEPT ![idx] = @ + 1]
             /\ IF IsErrorStatus(status)
                THEN /\ Fail("BackendError")
                     /\ UNCHANGED <<backend, resource, response, status_code, stage,
                                    idx, poll_uuid, elapsed>>
                ELSE \E b2 \in BackendApply(ctx, backend, cmd, status),
                        shape \in Shapes(cmd) :
                       LET result == ResponseBody(b2, cmd, shape)
                           r2 == StateAfter(cmd, resource, result)
                           u == IF Truthy(cmd.wait_config)
                                THEN UuidToPoll(The(cmd.wait_config), r2, result)
                                ELSE None
                       IN  /\ backend' = b2
                           /\ response' = [response EXCEPT ![idx] = result]
                           /\ status_code' = [status_code EXCEPT ![idx] = status]
                           /\ resource' = r2
                           /\ IF Truthy(cmd.wait_config) /\ params.wait
                              THEN IF Truthy(u)
                                   THEN /\ pc' = "wait"
                                        /\ poll_uuid' = The(u)
                                        /\ elapsed' = 0
                                        /\ stage' = [stage EXCEPT ![idx] = "waiting"]
                                        /\ UNCHANGED <<idx, outcome>>
                                   ELSE /\ Fail("NoUuidToPoll")
                                        /\ UNCHANGED <<stage, idx, poll_uuid, elapsed>>
                              ELSE /\ Advance(r2)
                                   /\ UNCHANGED <<poll_uuid, elapsed>>
    /\ UNCHANGED <<ctx, params, orders,
                   check_mode, run, plan, planner, has_changed, cache,
                   polled, hist>>

\* send_request("GET", polling_path, uuid): the object, or None for a 404.
Fetch(b, uuid) ==
    LET found == SelectSeq(b, LAMBDA r : r.uuid = uuid)
    IN  IF Len(found) = 0 THEN None ELSE Some(found[1])

OkStates == {"OK"}
ErredStates == {"Erred"}

\* A poller that takes an erred state for a pending one and polls on.
wait_for_completion_polling_on ==
    /\ pc = "wait"
    /\ IF elapsed < params.timeout
       THEN LET polled_data == Fetch(backend, poll_uuid)
                status == IF Truthy(polled_data) THEN 200 ELSE 404
            IN  /\ reqs' = Append(reqs, Req("GET", "poll", idx, status))
                /\ IF IsErrorStatus(status)
                   THEN /\ Fail("BackendError")
                        /\ UNCHANGED <<resource, polled, elapsed, stage, idx>>
                   ELSE IF status = 404
                   THEN /\ resource' = None
                        /\ Advance(resource')
                        /\ UNCHANGED <<polled, elapsed>>
                   ELSE /\ polled' = polled_data
                        /\ IF The(polled_data).state \in OkStates
                           THEN /\ resource' =
                                     IF The(plan[idx].wait_config).refetch_resource
                                     THEN (IF Len(backend) = 0 THEN None ELSE Some(backend[1]))
                                     ELSE polled_data
                                /\ Advance(resource')
                                /\ UNCHANGED elapsed
                           ELSE /\ elapsed' = elapsed + params.interval
                                /\ UNCHANGED <<resource, stage, idx, pc, outcome>>
       ELSE /\ Fail("Timeout")
            /\ UNCHANGED <<reqs, resource, polled, elapsed, stage, idx>>
    /\ UNCHANGED <<ctx, params, orders,
                   check_mode, backend, run, plan, planner, has_changed,
                   poll_uuid, cache, executed, response, status_code, hist>>

\* One iteration of _wait_for_completion's loop, or its timeout.
wait_for_completion ==
    /\ pc = "wait"
    /\ IF elapsed < params.timeout
       THEN LET polled_data == Fetch(backend, poll_uuid)
                status == IF Truthy(polled_data) THEN 200 ELSE 404
            IN  /\ reqs' = Append(reqs, Req("GET", "poll", idx, status))
                /\ IF IsErrorStatus(status)
                   THEN /\ Fail("BackendError")
                        /\ UNCHANGED <<resource, polled, elapsed, stage, idx>>
                   ELSE IF status = 404
                   THEN /\ resource' = None
                        /\ Advance(resource')
                        /\ UNCHANGED <<polled, elapsed>>
                   ELSE /\ polled' = polled_data
                        /\ IF The(polled_data).state \in OkStates
                           THEN /\ resource' =
                                     IF The(plan[idx].wait_config).refetch_resource
                                     THEN (IF Len(backend) = 0 THEN None ELSE Some(backend[1]))
                                     ELSE polled_data
                                /\ Advance(resource')
                                /\ UNCHANGED elapsed
                           ELSE IF The(polled_data).state \in ErredStates
                           THEN /\ Fail("TaskFailed")
                                /\ UNCHANGED <<resource, elapsed, stage, idx>>
                           ELSE /\ elapsed' = elapsed + params.interval
                                /\ UNCHANGED <<resource, stage, idx, pc, outcome>>
       ELSE /\ Fail("Timeout")
            /\ UNCHANGED <<reqs, resource, polled, elapsed, stage, idx>>
    /\ UNCHANGED <<ctx, params, orders,
                   check_mode, backend, run, plan, planner, has_changed,
                   poll_uuid, cache, executed, response, status_code, hist>>

\* The backend finishes an asynchronous task: the resource leaves its
\* pending state for a final one.
BackendProgress ==
    /\ \E i \in 1..Len(backend), s \in OkStates \cup ErredStates :
         /\ backend[i].state = "Pending"
         /\ backend' = [backend EXCEPT ![i].state = s]
    /\ UNCHANGED <<ctx, params, orders,
                   check_mode, run, pc, resource, plan, planner,
                   has_changed, idx, poll_uuid, elapsed, cache, reqs, executed,
                   response, status_code, stage, polled, outcome, hist>>

\* The backend removes the object the runner is polling (a termination that
\* completes): the next poll is answered with 404.
BackendRemoves ==
    /\ pc = "wait"
    /\ elapsed < params.timeout
    /\ \E i \in 1..Len(backend) :
         /\ backend[i].uuid = poll_uuid
         /\ backend[i].state = "Pending"
         /\ backend' = SelectSeq(backend, LAMBDA r : r.uuid # poll_uuid)
    /\ UNCHANGED <<ctx, params, orders,
                   check_mode, run, pc, resource, plan, planner,
                   has_changed, idx, poll_uuid, elapsed, cache, reqs, executed,
                   response, status_code, stage, polled, outcome, hist>>

\* What is kept of a finished run.
Summary ==
    [check_mode |-> check_mode, outcome |-> outcome, plan |-> plan,
     planner |-> planner, writes |-> Len(Writes(reqs)),
     resource |-> resource, backend |-> backend]

\* The module is run again with the same parameters: a new runner and a new
\* resolver are constructed.
NextRun ==
    /\ pc \in {"exited", "failed"}
    /\ run < MaxRuns
    /\ run' = run + 1
    /\ hist' = Append(hist, Summary)
    /\ check_mode' \in BOOLEAN
    /\ pc' = "check_existence"
    /\ resource' = None
    /\ plan' = <<>>
    /\ planner' = "none"
    /\ has_changed' = FALSE
    /\ idx' = 0
    /\ poll_uuid' = ""
    /\ elapsed' = 0
    /\ cache' = {}
    /\ reqs' = <<>>
    /\ executed' = <<>>
    /\ response' = <<>>
    /\ status_code' = <<>>
    /\ stage' = <<>>
    /\ polled' = None
    /\ outcome' = Running
    /\ UNCHANGED <<ctx, params, backend, orders>>

Next ==
    \/ CheckExistence
    \/ BuildPlan
    \/ handle_check_mode
    \/ execute_change_plan
    \/ ExecuteCommand
    \/ wait_for_completion
    \/ BackendProgress
    \/ BackendRemoves
    \/ NextRun

Spec == Init /\ [][Next]_vars

\* ------------------------------------------------------------------------
\* The order runner of the cloud collection: a resource is created through a
\* marketplace order and terminated through the marketplace; run() calls
\* create, update or delete itself instead of building a plan.
\* ------------------------------------------------------------------------

\* The runner's context: with or without an update endpoint.
OrderContexts ==
    {[update_url |-> u, update_check_fields |-> <<"description">>] : u \in BOOLEAN}

OrderParamSets ==
    [state : {"present", "absent"},
     wait : BOOLEAN,
     description : {PyNone, "old", "new"},
     project : {PyNone, "proj"},
     offering : {"off"},
     timeout : {0, MaxTimeout},
     interval : {0, 1}]

Provisioned(uuid, description) ==
    [uuid |-> uuid, description |-> description,
     marketplace_resource_uuid |-> "m-" \o uuid, state |-> "OK"]

OrderInitialBackends ==
    {<<>>, <<Provisioned("r1", "old")>>, <<Provisioned("r1", "old"), Provisioned("r2", "old")>>}

OrderInit ==
    /\ ctx \in OrderContexts
    /\ params \in OrderParamSets
    /\ check_mode \in BOOLEAN
    /\ backend \in OrderInitialBackends
    /\ orders = <<>>
    /\ run = 1
    /\ hist = <<>>
    /\ FreshRunner

\* The GETs of _resolve_to_url for the resolver parameters the user gave;
\* this runner keeps no cache.
ResolveReqs(names) ==
    LookupReqs(SelectSeq(names, LAMBDA n : params[n] # PyNone))

\* OrderRunner.check_existence: more than one match is a warning and the
\* first is taken.
OrderRunner_check_existence ==
    /\ pc = "check_existence"
    /\ reqs' = reqs \o ResolveReqs(<<"project">>)
                    \o <<Req("GET", "check_existence", 0, 200)>>
    /\ resource' = IF Len(backend) > 0 THEN Some(backend[1]) ELSE None
    /\ pc' = "mode"
    /\ UNCHANGED <<ctx, params, check_mode, backend, orders, run, plan, planner,
                   has_changed, idx, poll_uuid, elapsed, cache, executed, response,
                   status_code, stage, polled, outcome, hist>>

\* The PATCH payload of update(): the tracked fields the user gave whose
\* value differs from the resource's.
OrderUpdatePayload(c, p, res) ==
    [f \in {g \in Range(c.update_check_fields) : p[g] # PyNone /\ p[g] # res[g]} |-> p[f]]

\* The bodies the backend may answer a PATCH with: the whole object, the
\* fields that were sent, or nothing.
OrderResponseShapes == {"full", "partial", "empty"}

\* What _send_request returns for the PATCH: the parsed body, or None when
\* there is no body.
OrderResponseBody(updated, update_payload, shape) ==
    IF shape = "empty" \/ ~Truthy(updated) THEN None
    ELSE IF shape = "partial"
    THEN Some([k \in DOMAIN update_payload |-> The(updated)[k]])
    ELSE updated

\* OrderRunner.handle_check_mode
OrderRunner_handle_check_mode ==
    /\ pc = "mode"
    /\ check_mode
    /\ has_changed' =
          IF params.state = "present" /\ ~Truthy(resource) THEN TRUE
          ELSE IF params.state = "absent" /\ Truthy(resource) THEN TRUE
          ELSE IF params.state = "present" /\ Truthy(resource) /\ ctx.update_url
          THEN IF DOMAIN OrderUpdatePayload(ctx, params, The(resource)) # {}
               THEN TRUE ELSE has_changed
          ELSE has_changed
    /\ Exit(has_changed', resource)
    /\ UNCHANGED <<ctx, params, check_mode, backend, orders, run, resource, plan,
                   planner, idx, poll_uuid, elapsed, cache, reqs, executed, response,
                   status_code, stage, polled, hist>>

\* The uuids the backend gives the n-th order and the n-th resource.
OrderUuid(n) == IF n = 1 THEN "o1" ELSE IF n = 2 THEN "o2" ELSE "o3"
ResourceUuid(n) == IF n = 1 THEN "r1" ELSE IF n = 2 THEN "r2" ELSE "r3"

\* _send_request: `if info["status"] not in [200, 201, 202, 204]` fails.
OrderIsErrorStatus(status) == status \notin {200, 201, 202, 204}

\* OrderRunner.create: resolve, submit the order, wait for it when asked.
OrderRunner_create ==
    /\ pc = "mode"
    /\ ~check_mode
    /\ ~Truthy(resource)
    /\ params.state = "present"
    /\ planner' = "create"
    /\ IF params.project = PyNone
       THEN \* resolved_urls["project"] raises KeyError
            /\ reqs' = reqs \o ResolveReqs(<<"project", "offering">>)
            /\ Fail("KeyError")
            /\ UNCHANGED <<orders, has_changed, poll_uuid, elapsed>>
       ELSE \E status \in {201, 400} :
              /\ reqs' = reqs \o ResolveReqs(<<"project", "offering">>)
                              \o <<Req("POST", "execute", 1, status)>>
              /\ IF OrderIsErrorStatus(status)
                 THEN /\ Fail("BackendError")
                      /\ UNCHANGED <<orders, has_changed, poll_uuid, elapsed>>
                 ELSE LET order == [uuid |-> OrderUuid(Len(orders) + 1),
                                    state |-> "executing",
                                    description |-> IF params.description = PyNone
                                                    THEN "" ELSE params.description]
                      IN  /\ orders' = Append(orders, order)
                          /\ IF params.wait
                             THEN /\ pc' = "wait_order"
                                  /\ poll_uuid' = order.uuid
                                  /\ elapsed' = 0
                                  /\ UNCHANGED <<has_changed, outcome>>
                             ELSE /\ has_changed' = TRUE
                                  /\ Exit(TRUE, resource)
                                  /\ UNCHANGED <<poll_uuid, elapsed>>
    /\ UNCHANGED <<ctx, params, check_mode, backend, run, resource, plan, idx, cache,
                   executed, response, status_code, stage, polled, hist>>

OrderFailedStates == {"erred", "rejected", "canceled"}

\* One poll of OrderRunner._wait_for_order, or its timeout.  When the
\* order is done the method returns, create() sets has_changed and run()
\* exits with the runner's resource as it is.
OrderRunner_wait_for_order ==
    /\ pc = "wait_order"
    /\ IF elapsed < params.timeout
       THEN LET order == Fetch(orders, poll_uuid)
            IN  /\ reqs' = IF Len(SelectSeq(reqs, LAMBDA r : r.what = "poll")) < MaxPolls
                            THEN Append(reqs, Req("GET", "poll", 1, 200))
                            ELSE reqs
                /\ polled' = order
                /\ IF Truthy(order) /\ The(order).state = "done"
                   THEN /\ has_changed' = TRUE
                        /\ Exit(TRUE, resource)
                        /\ UNCHANGED elapsed
                   ELSE IF Truthy(order) /\ The(order).state \in OrderFailedStates
                   THEN /\ Fail("TaskFailed")
                        /\ UNCHANGED <<has_changed, elapsed>>
                   ELSE /\ pc' = "sleep_order"
                        /\ UNCHANGED <<has_changed, elapsed, outcome>>
       ELSE /\ Fail("Timeout")
            /\ UNCHANGED <<reqs, polled, has_changed, elapsed>>
    /\ UNCHANGED <<ctx, params, check_mode, backend, orders, run, resource, plan,
                   planner, idx, poll_uuid, cache, executed, response, status_code,
                   stage, hist>>

\* The end of an iteration of the loop: time.sleep(interval) and
\* waited += interval, then the loop condition is tested again.
OrderRunner_sleep ==
    /\ pc = "sleep_order"
    /\ elapsed' = elapsed + params.interval
    /\ pc' = "wait_order"
    /\ UNCHANGED <<ctx, params, check_mode, backend, orders, run, resource, plan,
                   planner, has_changed, idx, poll_uuid, cache, reqs, executed,
                   response, status_code, stage, polled, outcome, hist>>

\* OrderRunner.update: PATCH the tracked fields that differ; the response
\* replaces the runner's resource.
OrderRunner_update ==
    /\ pc = "mode"
    /\ ~check_mode
    /\ Truthy(resource)
    /\ params.state = "present"
    /\ planner' = "update"
    /\ LET update_payload == OrderUpdatePayload(ctx, params, The(resource))
       IN  IF ~ctx.update_url \/ DOMAIN update_payload = {}
           THEN /\ Exit(has_changed, resource)
                /\ UNCHANGED <<backend, resource, has_changed, reqs, response>>
           ELSE \E status \in {200, 400} :
                  /\ reqs' = Append(reqs, Req("PATCH", "execute", 1, status))
                  /\ IF OrderIsErrorStatus(status)
                     THEN /\ Fail("BackendError")
                          /\ UNCHANGED <<backend, resource, has_changed, response>>
                     ELSE \E shape \in OrderResponseShapes :
                          /\ backend' = [i \in 1..Len(backend) |->
                                           IF backend[i].uuid = The(resource).uuid
                                           THEN DictUpdate(backend[i], update_payload)
                                           ELSE backend[i]]
                          /\ response' = <<OrderResponseBody(
                                              Fetch(backend', The(resource).uuid),
                                              update_payload, shape)>>
                          /\ resource' = response'[1]
                          /\ has_changed' = TRUE
                          /\ Exit(TRUE, resource')
    /\ UNCHANGED <<ctx, params, check_mode, orders, run, plan, idx, poll_uuid, elapsed,
                   cache, executed, status_code, stage, polled, hist>>

\* OrderRunner.delete: terminate through the marketplace.
OrderRunner_delete ==
    /\ pc = "mode"
    /\ ~check_mode
    /\ Truthy(resource)
    /\ params.state = "absent"
    /\ planner' = "delete"
    /\ \E status \in {200, 400} :
         /\ reqs' = Append(reqs, Req("POST", "execute", 1, status))
         /\ IF OrderIsErrorStatus(status)
            THEN /\ Fail("BackendError")
                 /\ UNCHANGED <<backend, resource, has_changed>>
            ELSE /\ backend' = SelectSeq(backend, LAMBDA r :
                                   r.marketplace_resource_uuid
                                       # The(resource).marketplace_resource_uuid)
                 /\ has_changed' = TRUE
                 /\ resource' = None
                 /\ Exit(TRUE, resource')
    /\ UNCHANGED <<ctx, params, check_mode, orders, run, plan, idx, poll_uuid, elapsed,
                   cache, executed, response, status_code, stage, polled, hist>>

\* OrderRunner.run with nothing to do: the resource is absent and is to be.
OrderRunner_nothing ==
    /\ pc = "mode"
    /\ ~check_mode
    /\ ~Truthy(resource)
    /\ params.state = "absent"
    /\ Exit(has_changed, resource)
    /\ UNCHANGED <<ctx, params, check_mode, backend, orders, run, resource, plan,
                   planner, has_changed, idx, poll_uuid, elapsed, cache, reqs, executed,
                   response, status_code, stage, polled, hist>>

\* The backend finishes an order: it provisions the resource, or the order
\* ends in a failed state.
OrderProgress ==
    /\ \E i \in 1..Len(orders) :
         /\ orders[i].state = "executing"
         /\ \/ /\ orders' = [orders EXCEPT ![i].state = "done"]
               /\ backend' = Append(backend, Provisioned(ResourceUuid(Len(backend) + 1),
                                                         orders[i].description))
            \/ /\ \E s \in OrderFailedStates : orders' = [orders EXCEPT ![i].state = s]
               /\ UNCHANGED backend
    /\ UNCHANGED <<ctx, params, check_mode, run, pc, resource, plan, planner,
                   has_changed, idx, poll_uuid, elapsed, cache, reqs, executed,
                   response, status_code, stage, polled, outcome, hist>>

NextOrder ==
    \/ OrderRunner_check_existence
    \/ OrderRunner_handle_check_mode
    \/ OrderRunner_create
    \/ OrderRunner_wait_for_order
    \/ OrderRunner_sleep
    \/ OrderRunner_update
    \/ OrderRunner_delete
    \/ OrderRunner_nothing
    \/ OrderProgress
    \/ NextRun

SpecOrder == OrderInit /\ [][NextOrder]_vars

\* The runner's polling loop goes on as long as it can take a step; the
\* backend is not bound to finish an order.
SpecOrderFair ==
    SpecOrder /\ WF_vars(OrderRunner_wait_for_order) /\ WF_vars(OrderRunner_sleep)

\* ------------------------------------------------------------------------
\* The parameter resolver in detail: ParameterResolver of the marketplace
\* collection, its older copy in the openstack collection, and the
\* _resolve_to_url helper of the cloud collection's BaseRunner.  A runner
\* calls the resolver for the parameters the user gave, in the order its
\* context lists them, and then sends its write.
\* ------------------------------------------------------------------------

\* Number of resolver calls a run makes before its write.
MaxCalls == 3

Variants == {"marketplace", "openstack", "cloud"}

\* module.params["api_url"].rstrip("/")
ApiUrl == "https://api"

\* f"{api_url}/{list_path}/{value}/" with list_path = conf["url"].strip("/")
DetailUrl(list_path, value) == ApiUrl \o "/" \o list_path \o "/" \o value \o "/"

\* What the backend holds under each list endpoint.
Entry(list_path, uuid, name, scope_uuid, tenant_uuid) ==
    [uuid |-> uuid, url |-> DetailUrl(list_path, uuid), name |-> name,
     scope_uuid |-> scope_uuid, tenant_uuid |-> tenant_uuid]

Offerings ==
    << Entry("offerings", "uuid-o1", "off", "t1", PyNone),
       Entry("offerings", "uuid-o2", "dup", "t2", PyNone),
       Entry("offerings", "uuid-o3", "dup", "t2", PyNone) >>

\* The flavor "small" exists in two tenants: its name alone is ambiguous,
\* its name within the tenant of an offering is not.
Flavors ==
    << Entry("flavors", "uuid-f1", "small", PyNone, "t1"),
       Entry("flavors", "uuid-f2", "small", PyNone, "t2") >>

Subnets == << Entry("subnets", "uuid-s1", "net", PyNone, "t1") >>

Directory(list_path) ==
    CASE list_path = "offerings" -> Offerings
      [] list_path = "flavors" -> Flavors
      [] list_path = "subnets" -> Subnets

AllEntries == Offerings \o Flavors \o Subnets

\* BaseRunner._is_uuid: uuid.UUID(str(val)) succeeds.
is_uuid(val) == val \in {AllEntries[i].uuid : i \in 1..Len(AllEntries)}

\* value.startswith(("http://", "https://"))
is_url(val) == val \in {AllEntries[i].url : i \in 1..Len(AllEntries)}

\* The object field a query parameter filters on.
FilterField(key) == IF key \in {"name_exact", "name"} THEN "name" ELSE key

\* The backend's answer to a GET of a list endpoint with query parameters.
Search(list_path, query) ==
    SelectSeq(Directory(list_path),
              LAMBDA o : \A key \in DOMAIN query : o[FilterField(key)] = query[key])

\* The backend's answer to a GET of one object, as a list of zero or one.
Direct(url) == SelectSeq(AllEntries, LAMBDA o : o.url = url)

\* context["resolvers"]: a flavor is searched within the tenant of the
\* offering; a subnet is a field of the items of `ports`.
NoFilters == <<>>

Resolvers ==
    [offering |-> [url |-> "offerings", filter_by |-> NoFilters],
     flavor |-> [url |-> "flavors",
                 filter_by |-> << [source_param |-> "offering",
                                   source_key |-> "scope_uuid",
                                   target_key |-> "tenant_uuid"] >>],
     subnet |-> [url |-> "subnets", filter_by |-> NoFilters]]

\* The resolver's cache: a dict from (param_name, value) and from the bare
\* param_name to the resolved object.
EmptyCache == [k \in {} |-> PyNone]
CacheKey(param_name, value) == <<param_name, value>>
BareKey(param_name) == <<param_name>>
CachePut(c, key, obj) == [k \in (DOMAIN c) \cup {key} |-> IF k = key THEN obj ELSE c[k]]

EmptyQuery == [k \in {} |-> PyNone]

\* One GET of the resolver: a filtered list request ("search") or the GET
\* of one object ("direct"), for a parameter's value, in the call-th call.
Lookup(what, param_name, value, url, query, call) ==
    [method |-> "GET", what |-> what, param_name |-> param_name, value |-> value,
     url |-> url, query |-> query, call |-> call]

\* The resolver between two steps of a call: its cache, the requests sent,
\* the error of fail_json ("" while none) and the value being returned.
Step(c, rs, error, result) == [cache |-> c, reqs |-> rs, error |-> error, result |-> result]
Ok(st) == st.error = ""
Failed(st, error) == [st EXCEPT !.error = error]
Returning(st, result) == [st EXCEPT !.result = result]
Sent(st, lookup) == [st EXCEPT !.reqs = Append(@, lookup)]

\* `if param_name in self.module.params: self.cache[param_name] = obj`
WithBare(p, c, param_name, obj) ==
    IF param_name \in DOMAIN p THEN CachePut(c, BareKey(param_name), obj) ELSE c

\* The value of F at x, with x evaluated once.
Bind(x, F(_)) == CHOOSE y \in {F(v) : v \in {x}} : TRUE

\* A lookup that searches by name whatever the value is.
resolve_to_list_by_search(variant, param_name, value, query, st, call) ==
    Returning(Sent(st, Lookup("search", param_name, value, Resolvers[param_name].url,
                              [name_exact |-> value], call)),
              Search(Resolvers[param_name].url, [name_exact |-> value]))

\* ParameterResolver._resolve_to_list: the matching objects, in `result`.
resolve_to_list(variant, param_name, value, query, st, call) ==
    LET conf == Resolvers[param_name]
    IN  IF is_uuid(value)
        THEN LET url == DetailUrl(conf.url, value)
             IN  Returning(Sent(st, Lookup("direct", param_name, value, url, EmptyQuery, call)),
                           Direct(url))
        ELSE IF variant = "marketplace" /\ is_url(value)
        THEN Returning(Sent(st, Lookup("direct", param_name, value, value, EmptyQuery, call)),
                       Direct(value))
        ELSE LET final_query == [k \in (DOMAIN query) \cup {"name_exact"} |->
                                    IF k = "name_exact" THEN value ELSE query[k]]
             IN  Returning(Sent(st, Lookup("search", param_name, value, conf.url,
                                           final_query, call)),
                           Search(conf.url, final_query))

RECURSIVE build_dependency_filters(_, _, _, _, _, _)
RECURSIVE resolve_single_value(_, _, _, _, _, _)

\* ParameterResolver.resolve for a primitive value of a parameter that has
\* a resolver.
resolve_primitive(variant, p, param_name, value, st, call) ==
    Bind(resolve_single_value(variant, p, param_name, value, st, call),
         LAMBDA r :
            IF Ok(r) /\ variant = "marketplace" /\ param_name \in DOMAIN p
               /\ CacheKey(param_name, value) \in DOMAIN r.cache
            THEN [r EXCEPT !.cache = CachePut(@, BareKey(param_name),
                                              r.cache[CacheKey(param_name, value)])]
            ELSE r)

\* ParameterResolver._build_dependency_filters: the query parameters of the
\* filter_by rules `deps`, added to `query`, in `result`.
build_dependency_filters(variant, p, deps, query, st, call) ==
    IF ~Ok(st) \/ Len(deps) = 0 THEN Returning(st, query)
    ELSE LET dep == Head(deps)
             source_param == dep.source_param
         IN  Bind(\* Priority 2 of the marketplace resolver: resolve the user's value
                  IF variant = "marketplace" /\ BareKey(source_param) \notin DOMAIN st.cache
                     /\ DictGet(p, source_param) # PyNone
                  THEN resolve_primitive(variant, p, source_param, p[source_param], st, call)
                  ELSE st,
                  LAMBDA st1 :
                     IF ~Ok(st1) THEN st1
                     ELSE IF BareKey(source_param) \notin DOMAIN st1.cache
                     THEN IF variant = "marketplace"
                          THEN build_dependency_filters(variant, p, Tail(deps), query, st1, call)
                          ELSE Failed(st1, "ConfigurationError")
                     ELSE LET source_value == st1.cache[BareKey(source_param)][dep.source_key]
                          IN  IF source_value = PyNone THEN Failed(st1, "MissingSourceKey")
                              ELSE build_dependency_filters(
                                       variant, p, Tail(deps),
                                       [k \in (DOMAIN query) \cup {dep.target_key} |->
                                           IF k = dep.target_key THEN source_value
                                           ELSE query[k]],
                                       st1, call))

\* A lookup whose empty answer is returned as None instead of failing.
LookedUpLenient(variant, p, param_name, value, found) ==
    IF Len(found.result) = 0 THEN Returning(found, PyNone)
    ELSE Returning([found EXCEPT !.cache = CachePut(@, CacheKey(param_name, value),
                                                    found.result[1])],
                   found.result[1].url)

\* The lookup of _resolve_single_value on a cache miss.
LookedUp(variant, p, param_name, value, found) ==
    IF Len(found.result) = 0 THEN Failed(found, "NotFound")
    ELSE IF Len(found.result) > 1 /\ variant = "marketplace"
    THEN Failed(found, "AmbiguousReference")
    ELSE LET resolved_object == found.result[1]
         IN  Returning([found EXCEPT !.cache =
                           WithBare(p, CachePut(@, CacheKey(param_name, value),
                                                resolved_object),
                                    param_name, resolved_object)],
                       resolved_object.url)

\* ParameterResolver._resolve_single_value
resolve_single_value(variant, p, param_name, value, st, call) ==
    Bind(build_dependency_filters(variant, p, Resolvers[param_name].filter_by,
                                  EmptyQuery, st, call),
         LAMBDA deps :
            IF ~Ok(deps) THEN deps
            ELSE IF CacheKey(param_name, value) \in DOMAIN deps.cache
            THEN LET resolved_object == deps.cache[CacheKey(param_name, value)]
                 IN  Returning([deps EXCEPT !.cache =
                                   IF variant = "marketplace"
                                   THEN WithBare(p, @, param_name, resolved_object) ELSE @],
                               resolved_object.url)
            ELSE LookedUp(variant, p, param_name, value,
                          resolve_to_list(variant, param_name, value, deps.result, deps, call)))

\* ParameterResolver.resolve for a dict: every field that has a resolver is
\* resolved, the others are kept; `result` holds the resolved dict.
RECURSIVE resolve_dict(_, _, _, _, _, _)
resolve_dict(variant, p, item, keys, st, call) ==
    IF ~Ok(st) \/ keys = {} THEN st
    ELSE LET key == CHOOSE k \in keys : TRUE
         IN  Bind(IF key \in DOMAIN Resolvers
                  THEN resolve_primitive(variant, p, key, item[key], st, call)
                  ELSE Returning(st, item[key]),
                  LAMBDA r :
                     IF ~Ok(r) THEN r
                     ELSE Bind(Returning(r, [st.result EXCEPT ![key] = r.result]),
                               LAMBDA next : resolve_dict(variant, p, item, keys \ {key},
                                                          next, call)))

\* ParameterResolver.resolve for a list of objects (no is_list resolver):
\* the items are resolved one after the other.
RECURSIVE resolve_list(_, _, _, _, _, _)
resolve_list(variant, p, items, done, st, call) ==
    IF ~Ok(st) THEN st
    ELSE IF Len(items) = 0 THEN Returning(st, VList(done))
    ELSE Bind(resolve_dict(variant, p, Head(items).v, DOMAIN Head(items).v,
                           Returning(st, Head(items).v), call),
              LAMBDA r :
                 IF ~Ok(r) THEN r
                 ELSE resolve_list(variant, p, Tail(items), Append(done, VDict(r.result)),
                                   r, call))

\* ParameterResolver.resolve(param_name, param_value)
Resolver_resolve(variant, p, param_name, st, call) ==
    IF param_name \in {"ports"} THEN resolve_list(variant, p, p[param_name].v, <<>>, st, call)
    ELSE resolve_primitive(variant, p, param_name, p[param_name], st, call)

\* The search of resolve_to_url answered.
Searched(variant, p, param_name, value, asked, found) ==
    IF Len(found) = 0 THEN Failed(asked, "NotFound")
    ELSE IF Len(found) > 1 /\ variant = "marketplace"
    THEN Failed(asked, "AmbiguousReference")
    ELSE Returning([asked EXCEPT !.cache =
                       IF variant = "marketplace"
                       THEN WithBare(p, CachePut(@, CacheKey(param_name, value), found[1]),
                                     param_name, found[1])
                       ELSE @],
                   found[1].url)

\* ParameterResolver.resolve_to_url, and BaseRunner._resolve_to_url of the
\* cloud collection.
resolve_to_url(variant, p, param_name, value, st, call) ==
    LET conf == Resolvers[param_name]
        cache_key == CacheKey(param_name, value)
        query == IF variant = "cloud" THEN [name |-> value] ELSE [name_exact |-> value]
    IN  IF is_uuid(value) THEN Returning(st, DetailUrl(conf.url, value))
        ELSE IF variant = "marketplace" /\ is_url(value) THEN Returning(st, value)
        ELSE IF variant = "marketplace" /\ cache_key \in DOMAIN st.cache
        THEN Returning(st, st.cache[cache_key].url)
        ELSE Searched(variant, p, param_name, value,
                      Sent(st, Lookup("search", param_name, value, conf.url, query, call)),
                      Search(conf.url, query))

\* ParameterResolver.prime_cache_from_resource(resource, [key])
prime_cache_from_resource(res, key, st, call) ==
    IF res[key] # PyNone /\ BareKey(key) \notin DOMAIN st.cache
    THEN LET asked == Sent(st, Lookup("direct", key, res[key], res[key], EmptyQuery, call))
             obj_data == Direct(res[key])
         IN  IF Len(obj_data) > 0
             THEN [asked EXCEPT !.cache = CachePut(@, BareKey(key), obj_data[1])]
             ELSE asked
    ELSE st

\* The parameters of a module whose payload holds an offering, a flavor and
\* a list of ports: each reference is omitted, a unique name, an ambiguous
\* name, a name nothing carries, a UUID or (the offering) a URL.
ResolverParamSets ==
    [offering : {PyNone, "off", "dup", "missing", "uuid-o1", DetailUrl("offerings", "uuid-o1")},
     flavor : {PyNone, "small", "missing", "uuid-f1"},
     ports : {VNone, VList(<<Port("net")>>), VList(<<Port("net"), PortWithIp("net", "10.0.0.1")>>)}]

\* The existing resource a runner primes the cache from, if there is one.
ResolverResources == {None, Some([offering |-> DetailUrl("offerings", "uuid-o1")])}

\* A runner and its resolver as constructed: ParameterResolver.__init__
ResolverInit ==
    /\ ctx \in [variant : Variants]
    /\ params \in ResolverParamSets
    /\ resource \in ResolverResources
    /\ cache = EmptyCache
    /\ reqs = <<>>
    /\ hist = <<>>
    /\ pc = "resolving"
    /\ outcome = Running
    /\ check_mode = FALSE
    /\ backend = <<>>
    /\ orders = <<>>
    /\ run = 1
    /\ plan = <<>>
    /\ planner = "none"
    /\ has_changed = FALSE
    /\ idx = 0
    /\ poll_uuid = ""
    /\ elapsed = 0
    /\ executed = <<>>
    /\ response = <<>>
    /\ status_code = <<>>
    /\ stage = <<>>
    /\ polled = None

\* What a resolver call leaves behind: the cache, the requests, and a record
\* of the call with the cache it started from; fail_json ends the run.
Called(fn, param_name, value, st) ==
    /\ cache' = st.cache
    /\ reqs' = st.reqs
    /\ hist' = Append(hist, [fn |-> fn, param_name |-> param_name, value |-> value,
                             before |-> cache, error |-> st.error,
                             result |-> IF Ok(st) THEN st.result ELSE PyNone])
    /\ IF Ok(st) THEN UNCHANGED <<pc, outcome>> ELSE Fail(st.error)
    /\ UNCHANGED <<ctx, params, check_mode, backend, orders, run, resource, plan, planner,
                   has_changed, idx, poll_uuid, elapsed, executed, response, status_code,
                   stage, polled>>

\* The parameters whose value is a list of objects.
ListParams == {"ports"}

Supplied(param_name) ==
    IF param_name \in ListParams THEN params[param_name] # VNone
    ELSE params[param_name] # PyNone

\* A runner calls resolver.resolve_to_url (check_existence, plan_creation of
\* the structure collection) or its own _resolve_to_url (cloud).
Runner_resolve_to_url ==
    /\ pc = "resolving"
    /\ Len(hist) < MaxCalls
    /\ \E param_name \in {"offering", "flavor"} :
         /\ Supplied(param_name)
         /\ Called("resolve_to_url", param_name, params[param_name],
                   resolve_to_url(ctx.variant, params, param_name, params[param_name],
                                  Step(cache, reqs, "", PyNone), Len(hist) + 1))

\* A runner calls resolver.resolve for a parameter the user gave.
Runner_resolve ==
    /\ pc = "resolving"
    /\ Len(hist) < MaxCalls
    /\ ctx.variant # "cloud"
    /\ \E param_name \in DOMAIN params :
         /\ Supplied(param_name)
         /\ Called("resolve", param_name, params[param_name],
                   Resolver_resolve(ctx.variant, params, param_name,
                                    Step(cache, reqs, "", PyNone), Len(hist) + 1))

\* OrderRunner._handle_complex_update primes the cache from the resource.
Runner_prime_cache ==
    /\ pc = "resolving"
    /\ Len(hist) < MaxCalls
    /\ ctx.variant = "openstack"
    /\ Truthy(resource)
    /\ Called("prime_cache_from_resource", "offering", The(resource).offering,
              prime_cache_from_resource(The(resource), "offering",
                                        Step(cache, reqs, "", PyNone), Len(hist) + 1))

\* The runner sends its write with the values the calls returned.
Runner_send_write ==
    /\ pc = "resolving"
    /\ Len(hist) > 0
    /\ reqs' = Append(reqs, [method |-> "POST", what |-> "execute",
                             payload |-> [i \in 1..Len(hist) |-> hist[i].result]])
    /\ pc' = "done"
    /\ UNCHANGED <<ctx, params, check_mode, backend, orders, run, resource, plan, planner,
                   has_changed, idx, poll_uuid, elapsed, cache, executed, response,
                   status_code, stage, polled, outcome, hist>>

NextResolver ==
    \/ Runner_resolve_to_url
    \/ Runner_resolve
    \/ Runner_prime_cache
    \/ Runner_send_write

SpecResolver == ResolverInit /\ [][NextResolver]_vars

\* ------------------------------------------------------------------------
\* Two runs at once: two module processes, each with its own runner and
\* resolver (OrderRunner.__init__, ParameterResolver.__init__), reconcile
\* two resources of different names against one backend.  A run takes one
\* step per HTTP request it sends; the steps of the two runs interleave.
\* ------------------------------------------------------------------------

Targets == <<"vm-a", "vm-b">>

\* The parameters of the run for a target.
PairParamSets(name) ==
    [name : {name}, state : {"present", "absent"},
     offering : {"off", "uuid-o2", "missing"}, flavor : {PyNone, "small"}]

\* A resource of the backend, as the order that created it asked for it.
Ordered(name, offering, flavor) ==
    [name |-> name, uuid |-> "uuid-" \o name, offering |-> offering, flavor |-> flavor]

PairBackends ==
    {<<>>,
     <<Ordered("vm-a", DetailUrl("offerings", "uuid-o1"), PyNone)>>,
     <<Ordered("vm-b", DetailUrl("offerings", "uuid-o2"), PyNone)>>,
     <<Ordered("vm-a", DetailUrl("offerings", "uuid-o1"), PyNone),
       Ordered("vm-b", DetailUrl("offerings", "uuid-o2"), PyNone)>>}

\* The parameters create() resolves, in its order: the offering first, then
\* the attributes that depend on it.  An existing resource that is to be
\* present has no field to update here.
ResolvedParams == <<"offering", "flavor">>

\* A runner and its resolver as constructed.
FreshPairRunner ==
    [pc |-> "check_existence", resource |-> None, plan |-> <<>>, has_changed |-> FALSE,
     idx |-> 0, cache |-> EmptyCache, response |-> <<>>, outcome |-> Running]

\* A cache attribute that belongs to the class: every resolver reads the
\* cache of the first.
CacheOfClass(caches, i) == caches[1]

\* self.cache of the i-th resolver: an attribute of the instance.
CacheOf(caches, i) == caches[i]

\* The next step of a run with parameters p, from the runner's state r and
\* the backend b: the runner's state and the backend after the step.
RunStep(p, r, b) ==
    CASE r.pc = "check_existence" ->
           LET data == SelectSeq(b, LAMBDA o : o.name = p.name)
               res == IF Len(data) > 0 THEN Some(data[1]) ELSE None
           IN  [runner |->
                  IF Truthy(res) /\ p.state = "absent"
                  THEN [r EXCEPT !.resource = res, !.pc = "delete",
                                 !.plan = <<[write |-> "terminate", uuid |-> The(res).uuid]>>]
                  ELSE IF ~Truthy(res) /\ p.state = "present"
                  THEN [r EXCEPT !.resource = res, !.pc = "resolve"]
                  ELSE [r EXCEPT !.resource = res, !.pc = "exited",
                                 !.outcome = exit(r.has_changed, res)],
                backend |-> b]
      [] r.pc = "resolve" ->
           LET param_name == ResolvedParams[r.idx + 1]
               st == IF p[param_name] = PyNone
                     THEN Step(r.cache, <<>>, "", PyNone)
                     ELSE Resolver_resolve("openstack", p, param_name,
                                           Step(r.cache, <<>>, "", PyNone), r.idx + 1)
           IN  [runner |->
                  IF ~Ok(st)
                  THEN [r EXCEPT !.cache = st.cache, !.pc = "failed",
                                 !.outcome = fail_json(st.error)]
                  ELSE LET attributes == Append(r.response, st.result)
                       IN  IF r.idx + 1 < Len(ResolvedParams)
                           THEN [r EXCEPT !.cache = st.cache, !.idx = @ + 1,
                                          !.response = attributes]
                           ELSE [r EXCEPT !.cache = st.cache, !.idx = @ + 1,
                                          !.response = attributes, !.pc = "create",
                                          !.plan = <<[write |-> "order", name |-> p.name,
                                                      offering |-> attributes[1],
                                                      flavor |-> attributes[2]]>>],
                backend |-> b]
      [] r.pc = "create" ->
           LET created == Ordered(p.name, r.plan[1].offering, r.plan[1].flavor)
           IN  [runner |-> [r EXCEPT !.has_changed = TRUE, !.resource = Some(created),
                                     !.pc = "exited",
                                     !.outcome = exit(TRUE, Some(created))],
                backend |-> Append(b, created)]
      [] r.pc = "delete" ->
           [runner |-> [r EXCEPT !.has_changed = TRUE, !.resource = None, !.pc = "exited",
                                 !.outcome = exit(TRUE, None)],
            backend |-> SelectSeq(b, LAMBDA o : o.uuid # r.plan[1].uuid)]
      [] OTHER -> [runner |-> r, backend |-> b]

\* The runner's state after n steps of a run that nothing interleaves with.
RECURSIVE RunAlone(_, _, _, _)
RunAlone(p, r, b, n) ==
    IF n = 0 THEN r
    ELSE Bind(RunStep(p, r, b), LAMBDA after : RunAlone(p, after.runner, after.backend, n - 1))

\* check_existence, the resolutions, and the write
MaxSteps == 2 + Len(ResolvedParams)

PairInit ==
    /\ ctx \in [backend : PairBackends]
    /\ backend = ctx.backend
    /\ params \in {<<p1, p2>> : p1 \in PairParamSets(Targets[1]), p2 \in PairParamSets(Targets[2])}
    /\ pc = [i \in 1..2 |-> FreshPairRunner.pc]
    /\ resource = [i \in 1..2 |-> FreshPairRunner.resource]
    /\ plan = [i \in 1..2 |-> FreshPairRunner.plan]
    /\ has_changed = [i \in 1..2 |-> FreshPairRunner.has_changed]
    /\ idx = [i \in 1..2 |-> FreshPairRunner.idx]
    /\ cache = [i \in 1..2 |-> FreshPairRunner.cache]
    /\ response = [i \in 1..2 |-> FreshPairRunner.response]
    /\ outcome = [i \in 1..2 |-> FreshPairRunner.outcome]
    /\ check_mode = FALSE
    /\ orders = <<>>
    /\ run = 1
    /\ planner = "none"
    /\ poll_uuid = ""
    /\ elapsed = 0
    /\ reqs = <<>>
    /\ executed = <<>>
    /\ status_code = <<>>
    /\ stage = <<>>
    /\ polled = None
    /\ hist = <<>>

\* The state of the i-th runner.
PairRunner(i) ==
    [pc |-> pc[i], resource |-> resource[i], plan |-> plan[i],
     has_changed |-> has_changed[i], idx |-> idx[i], cache |-> CacheOf(cache, i),
     response |-> response[i], outcome |-> outcome[i]]

\* The i-th run takes its next step.
PairStepped(i) ==
    LET after == RunStep(params[i], PairRunner(i), backend)
    IN  /\ pc' = [pc EXCEPT ![i] = after.runner.pc]
        /\ resource' = [resource EXCEPT ![i] = after.runner.resource]
        /\ plan' = [plan EXCEPT ![i] = after.runner.plan]
        /\ has_changed' = [has_changed EXCEPT ![i] = after.runner.has_changed]
        /\ idx' = [idx EXCEPT ![i] = after.runner.idx]
        /\ cache' = [cache EXCEPT ![i] = after.runner.cache]
        /\ response' = [response EXCEPT ![i] = after.runner.response]
        /\ outcome' = [outcome EXCEPT ![i] = after.runner.outcome]
        /\ backend' = after.backend
        /\ UNCHANGED <<ctx, params, check_mode, orders, run, planner, poll_uuid, elapsed,
                       reqs, executed, status_code, stage, polled, hist>>

\* OrderRunner.check_existence of one of the runs
Pair_check_existence ==
    \E i \in 1..2 : pc[i] = "check_existence" /\ PairStepped(i)

\* One resolver.resolve call of create() of one of the runs
Pair_resolve ==
    \E i \in 1..2 : pc[i] = "resolve" /\ PairStepped(i)

\* The POST of the order of one of the runs; the order done, the run
\* reports the resource it provisioned.
Pair_create ==
    \E i \in 1..2 : pc[i] = "create" /\ PairStepped(i)

\* The termination request of one of the runs
Pair_delete ==
    \E i \in 1..2 : pc[i] = "delete" /\ PairStepped(i)

NextPair ==
    \/ Pair_check_existence
    \/ Pair_resolve
    \/ Pair_create
    \/ Pair_delete

SpecPair == PairInit /\ [][NextPair]_vars

\* ------------------------------------------------------------------------
\* The order runner of the openstack collection in check mode and in apply
\* mode: handle_check_mode predicts the changed flag from the parameters
\* and the resource; create, update and delete set it.
\* ------------------------------------------------------------------------

\* handle_check_mode: the changed flag a check-mode run reports.
OrderRunner_predicted(c, update_url, p, res) ==
    IF p.state = "present" /\ ~Truthy(res) THEN TRUE
    ELSE IF p.state = "absent" /\ Truthy(res) THEN TRUE
    ELSE IF p.state = "present" /\ Truthy(res) /\ update_url
    THEN \/ \E i \in 1..Len(c.update_fields) :
              /\ p[c.update_fields[i]] # PyNone
              /\ p[c.update_fields[i]] # The(res)[c.update_fields[i]]
         \/ \E i \in 1..Len(c.update_actions) :
              /\ p[c.update_actions[i].param] # VNone
              /\ p[c.update_actions[i].param] # The(res)[c.update_actions[i].compare_key]
    ELSE FALSE

\* _handle_complex_update: whether the action's request is sent.
OrderRunner_action_due(ai, p, res) ==
    /\ p[ai.param] # VNone
    /\ LET resolved == resolve(ai, p[ai.param])
           resource_value == The(res)[ai.compare_key]
       IN  IF NonEmptyList(resolved) /\ resolved.v[1].t = "str"
           THEN VSet(Range(resolved.v))
                  # (IF IsList(resource_value) THEN VSet(Range(UrlsOf(resource_value).v))
                     ELSE VSet({}))
           ELSE OrderRunner_normalize_for_comparison(resolved, ai.idempotency_keys)
                  # OrderRunner_normalize_for_comparison(resource_value, ai.idempotency_keys)

\* run() in apply mode, every request answered without an error: the
\* changed flag create, update or delete leave.
OrderRunner_applied(c, update_url, p, res) ==
    IF Truthy(res)
    THEN IF p.state = "present"
         THEN \/ /\ update_url
                 /\ \E i \in 1..Len(c.update_fields) :
                      /\ p[c.update_fields[i]] # PyNone
                      /\ p[c.update_fields[i]] # The(res)[c.update_fields[i]]
              \/ \E i \in 1..Len(c.update_actions) :
                   OrderRunner_action_due(c.update_actions[i], p, res)
         ELSE p.state = "absent"
    ELSE p.state = "present"

\* The resource the existence check finds: none, or one the backend holds.
FoundResources(c) ==
    {None} \cup {Some(Existing(it)) : it \in InitialItems(c)}

PredictInit ==
    /\ ctx \in [context : Contexts, update_url : BOOLEAN]
    /\ params \in ParamSets(ctx.context)
    /\ resource \in FoundResources(ctx.context)
    /\ hist = <<>>
    /\ pc = "mode"
    /\ check_mode = TRUE
    /\ backend = <<>>
    /\ orders = <<>>
    /\ run = 1
    /\ plan = <<>>
    /\ planner = "none"
    /\ has_changed = FALSE
    /\ idx = 0
    /\ poll_uuid = ""
    /\ elapsed = 0
    /\ cache = {}
    /\ reqs = <<>>
    /\ executed = <<>>
    /\ response = <<>>
    /\ status_code = <<>>
    /\ stage = <<>>
    /\ polled = None
    /\ outcome = Running

\* The check-mode run: handle_check_mode and exit.
Predict_check_mode ==
    /\ pc = "mode"
    /\ check_mode
    /\ Len(hist) = 0
    /\ has_changed' = OrderRunner_predicted(ctx.context, ctx.update_url, params, resource)
    /\ hist' = Append(hist, [check_mode |-> TRUE, changed |-> has_changed'])
    /\ check_mode' = FALSE
    /\ UNCHANGED <<ctx, params, backend, orders, run, pc, resource, plan, planner, idx,
                   poll_uuid, elapsed, cache, reqs, executed, response, status_code,
                   stage, polled, outcome>>

\* The apply-mode run on the same parameters and the same resource.
Predict_apply ==
    /\ pc = "mode"
    /\ ~check_mode
    /\ Len(hist) = 1
    /\ has_changed' = OrderRunner_applied(ctx.context, ctx.update_url, params, resource)
    /\ hist' = Append(hist, [check_mode |-> FALSE, changed |-> has_changed'])
    /\ pc' = "exited"
    /\ UNCHANGED <<ctx, params, check_mode, backend, orders, run, resource, plan, planner,
                   idx, poll_uuid, elapsed, cache, reqs, executed, response, status_code,
                   stage, polled, outcome>>

NextPredict ==
    \/ Predict_check_mode
    \/ Predict_apply

SpecPredict == PredictInit /\ [][NextPredict]_vars

\* ------------------------------------------------------------------------
\* execute_change_plan on its own: it is handed a plan of one command of any
\* type that carries a wait_config, for a resource check_existence found.
\* ------------------------------------------------------------------------


\* The wait_config _build_action_update_commands attaches, and the one whose
\* uuid is read from the response.
WaitConfigs ==
    {[location |-> l, key |-> "uuid", refetch_resource |-> FALSE] :
       l \in {"resource", "result_body"}}

OrderCommand == Command("order", "POST", "marketplace-orders", NoData, PyNone, None)

\* The commands the planners build for the resource, and an order.
PlannableCommands(c, p, r) ==
    (IF Len(MissingRequired(c, p)) = 0 THEN Range(plan_creation(c, p)) ELSE {})
    \cup Range(plan_update(c, p, r))
    \cup Range(plan_deletion(r))
    \cup {OrderCommand}

WaitInit ==
    /\ ctx \in Contexts
    /\ params \in ParamSets(ctx)
    /\ backend \in {b \in InitialBackends(ctx) : Len(b) > 0}
    /\ resource = Some(backend[1])
    /\ \E cmd \in PlannableCommands(ctx, params, resource), w \in WaitConfigs :
         plan = <<[cmd EXCEPT !.wait_config = Some(w)]>>
    /\ planner = "none"
    /\ check_mode = FALSE
    /\ pc = "mode"
    /\ orders = <<>>
    /\ run = 1
    /\ hist = <<>>
    /\ has_changed = FALSE
    /\ idx = 0
    /\ poll_uuid = ""
    /\ elapsed = 0
    /\ cache = {}
    /\ reqs = <<>>
    /\ executed = <<0>>
    /\ response = <<None>>
    /\ status_code = <<0>>
    /\ stage = <<"planned">>
    /\ polled = None
    /\ outcome = Running

NextWait ==
    \/ execute_change_plan
    \/ ExecuteCommand
    \/ wait_for_completion
    \/ BackendProgress
    \/ BackendRemoves

SpecWait == WaitInit /\ [][NextWait]_vars

\* ------------------------------------------------------------------------
\* The link runner: a module that attaches a volume (the source) to an
\* instance (the target) or detaches it.  The runner's own fields
\* (source_object, target_object, is_linked) are kept in `stage`, the
\* resolver's cache in `cache`, the requests the backend accepted and has
\* not yet applied in `orders`.
\* ------------------------------------------------------------------------

LinkSource == "volume"
LinkTarget == "instance"
LinkCheckKey == "instance"
LinkParamNames == <<"device">>

\* self.context: the order in which check_existence resolves the parameters.
LinkContexts ==
    {[resolver_order |-> o] :
       o \in {<<"instance", "volume">>, <<"volume", "instance">>, <<"volume">>}}

LinkParamSets ==
    [state : {"present", "absent"}, volume : {"vol-a", "ghost"},
     instance : {"vm-a", "vm-b", PyNone}, device : {PyNone, "/dev/vdb"}]

LinkInstance(name) ==
    [uuid |-> name, name |-> name, url |-> DetailUrl("openstack-instances", name)]

LinkVolume(name, link) ==
    [uuid |-> name, name |-> name, url |-> DetailUrl("openstack-volumes", name),
     instance |-> link, device |-> PyNone]

\* The backend holds one volume, unattached or attached to one of the two
\* instances.
LinkBackends ==
    {[volume |-> <<LinkVolume("vol-a", link)>>,
      instance |-> <<LinkInstance("vm-a"), LinkInstance("vm-b")>>] :
       link \in {PyNone, LinkInstance("vm-a").url, LinkInstance("vm-b").url}}

\* _resolve_to_list: the objects of a kind with the name asked for.
LinkSearch(b, param_name, value) == SelectSeq(b[param_name], LAMBDA o : o.name = value)

\* check_existence, step 1: the parameters of resolver_order the user gave
\* are resolved in turn; an object found is cached, a cached one is not
\* looked up again, a name nothing answers to fails the run.
RECURSIVE LinkResolveInOrder(_, _, _, _, _)
LinkResolveInOrder(c, p, b, st, i) ==
    IF i > Len(c.resolver_order) \/ st.error # "" THEN st
    ELSE LET param_name == c.resolver_order[i]
         IN  IF p[param_name] = PyNone \/ param_name \in DOMAIN st.cache
             THEN LinkResolveInOrder(c, p, b, st, i + 1)
             ELSE LET found == LinkSearch(b, param_name, p[param_name])
                      asked == [st EXCEPT !.lookups = @ + 1]
                  IN  IF Len(found) = 0
                      THEN [asked EXCEPT !.error = "NotFound"]
                      ELSE LinkResolveInOrder(
                               c, p, b,
                               [asked EXCEPT !.cache =
                                   [k \in (DOMAIN @) \cup {param_name} |->
                                       IF k = param_name THEN found[1] ELSE @[k]]],
                               i + 1)

\* A link test that takes a volume attached to any instance for linked.
is_linked_to_any(source_object, target_object) == source_object[LinkCheckKey] # PyNone

\* check_existence, step 3: the source's link field against the target's URL.
is_linked(source_object, target_object) == source_object[LinkCheckKey] = target_object.url

\* LinkRunner.check_existence: the resolver's state after it, the error it
\* failed with, and the runner's fields it set.
LinkRunner_check_existence(c, p, b, resolver_cache) ==
    LET st == LinkResolveInOrder(c, p, b,
                                 [cache |-> resolver_cache, error |-> "", lookups |-> 0], 1)
        source_object == IF LinkSource \in DOMAIN st.cache
                         THEN Some(st.cache[LinkSource]) ELSE None
        target_object == IF LinkTarget \in DOMAIN st.cache
                         THEN Some(st.cache[LinkTarget]) ELSE None
    IN  [cache |-> st.cache, lookups |-> st.lookups,
         error |-> IF st.error # "" THEN st.error
                   ELSE IF ~Truthy(source_object) THEN "SourceNotFound"
                   ELSE IF ~Truthy(target_object) THEN "TargetNotFound"
                   ELSE "",
         source_object |-> source_object, target_object |-> target_object,
         is_linked |-> /\ st.error = ""
                       /\ Truthy(source_object) /\ Truthy(target_object)
                       /\ is_linked(The(source_object), The(target_object))]

\* LinkRunner.plan_creation: the payload carries the target's URL and the
\* link parameters the user gave.
LinkRunner_plan_creation(p, source_object, target_object) ==
    <<Command("action", "POST", "link_op_path",
              [instance |-> target_object.url, device |-> p.device],
              source_object.uuid, None)>>

\* LinkRunner.plan_deletion
LinkRunner_plan_deletion(source_object) ==
    <<Command("action", "POST", "unlink_op_path", NoData, source_object.uuid, None)>>

\* LinkRunner.run: the plan, from is_linked and the desired state.
LinkRunner_plan(p, checked) ==
    IF checked.is_linked
    THEN IF p.state = "absent"
         THEN LinkRunner_plan_deletion(The(checked.source_object)) ELSE <<>>
    ELSE IF p.state = "present"
    THEN LinkRunner_plan_creation(p, The(checked.source_object), The(checked.target_object))
    ELSE <<>>

\* The backend applies a link or an unlink request to the volume.
LinkApplied(b, cmd) ==
    [b EXCEPT !.volume =
        [i \in 1..Len(@) |->
            IF @[i].uuid # cmd.path_uuid THEN @[i]
            ELSE IF cmd.path = "link_op_path"
            THEN [@[i] EXCEPT !.instance = cmd.data.instance,
                              !.device = cmd.data.device]
            ELSE [@[i] EXCEPT !.instance = PyNone, !.device = PyNone]]]

NoLinkFields == [source_object |-> None, target_object |-> None, is_linked |-> FALSE]

LinkInit ==
    /\ ctx \in LinkContexts
    /\ params \in LinkParamSets
    /\ check_mode \in BOOLEAN
    /\ backend \in LinkBackends
    /\ orders = <<>>
    /\ run = 1
    /\ hist = <<>>
    /\ pc = "check_existence"
    /\ resource = None
    /\ plan = <<>>
    /\ planner = "none"
    /\ has_changed = FALSE
    /\ idx = 0
    /\ poll_uuid = ""
    /\ elapsed = 0
    /\ cache = <<>>
    /\ reqs = <<>>
    /\ executed = <<>>
    /\ response = <<>>
    /\ status_code = <<>>
    /\ stage = NoLinkFields
    /\ polled = None
    /\ outcome = Running

\* LinkRunner.run up to the check-mode test: check_existence, then the plan.
LinkRunner_run ==
    /\ pc = "check_existence"
    /\ LET checked == LinkRunner_check_existence(ctx, params, backend, cache)
       IN  /\ cache' = checked.cache
           /\ reqs' = reqs \o [i \in 1..checked.lookups |-> Req("GET", "resolve", 0, 200)]
           /\ IF checked.error # ""
              THEN /\ Fail(checked.error)
                   /\ UNCHANGED <<resource, plan, stage>>
              ELSE /\ stage' = [source_object |-> checked.source_object,
                                target_object |-> checked.target_object,
                                is_linked |-> checked.is_linked]
                   /\ resource' = checked.source_object
                   /\ plan' = LinkRunner_plan(params, checked)
                   /\ pc' = "mode"
                   /\ UNCHANGED outcome
    /\ UNCHANGED <<ctx, params, check_mode, backend, orders, run, planner, has_changed,
                   idx, poll_uuid, elapsed, executed, response, status_code, polled, hist>>

\* run() in check mode: BaseRunner.handle_check_mode
LinkRunner_handle_check_mode ==
    /\ pc = "mode"
    /\ check_mode
    /\ has_changed' = IF Len(plan) > 0 THEN TRUE ELSE has_changed
    /\ Exit(has_changed', resource)
    /\ UNCHANGED <<ctx, params, check_mode, backend, orders, run, resource, plan, planner,
                   idx, poll_uuid, elapsed, cache, reqs, executed, response, status_code,
                   stage, polled, hist>>

\* run() in apply mode: BaseRunner.execute_change_plan with the plan of at
\* most one action command, which has no wait_config.  The backend rejects
\* the request, applies it, or accepts it and applies it later.
LinkRunner_execute_change_plan ==
    /\ pc = "mode"
    /\ ~check_mode
    /\ IF Len(plan) = 0
       THEN /\ pc' = "recheck"
            /\ UNCHANGED <<has_changed, reqs, backend, orders, outcome>>
       ELSE /\ has_changed' = TRUE
            /\ \E status \in {200, 202, 400} :
                 /\ reqs' = Append(reqs, Req(plan[1].method, "execute", 1, status))
                 /\ IF IsErrorStatus(status)
                    THEN /\ Fail("BackendError")
                         /\ UNCHANGED <<backend, orders>>
                    ELSE /\ pc' = "recheck"
                         /\ IF status = 202
                            THEN /\ orders' = Append(orders, plan[1])
                                 /\ UNCHANGED backend
                            ELSE /\ backend' = LinkApplied(backend, plan[1])
                                 /\ UNCHANGED orders
                         /\ UNCHANGED outcome
    /\ UNCHANGED <<ctx, params, check_mode, run, resource, plan, planner,
                   idx, poll_uuid, elapsed, cache, executed, response, status_code,
                   stage, polled, hist>>

\* The end of run(): check_existence once more, with the resolver's cache
\* as the first call left it, then exit.
LinkRunner_exit ==
    /\ pc = "recheck"
    /\ LET checked == LinkRunner_check_existence(ctx, params, backend, cache)
       IN  /\ cache' = checked.cache
           /\ reqs' = reqs \o [i \in 1..checked.lookups |-> Req("GET", "resolve", 0, 200)]
           /\ IF checked.error # ""
              THEN /\ Fail(checked.error)
                   /\ UNCHANGED <<resource, stage>>
              ELSE /\ stage' = [source_object |-> checked.source_object,
                                target_object |-> checked.target_object,
                                is_linked |-> checked.is_linked]
                   /\ resource' = checked.source_object
                   /\ Exit(has_changed, resource')
    /\ UNCHANGED <<ctx, params, check_mode, backend, orders, run, plan, planner,
                   has_changed, idx, poll_uuid, elapsed, executed, response,
                   status_code, polled, hist>>

\* The backend applies a request it had accepted.
LinkBackendApplies ==
    /\ Len(orders) > 0
    /\ backend' = LinkApplied(backend, orders[1])
    /\ orders' = Tail(orders)
    /\ UNCHANGED <<ctx, params, check_mode, run, pc, resource, plan, planner,
                   has_changed, idx, poll_uuid, elapsed, cache, reqs, executed,
                   response, status_code, stage, polled, outcome, hist>>

\* The module is run again with the same parameters: a new runner with a
\* new resolver.
LinkNextRun ==
    /\ pc \in {"exited", "failed"}
    /\ run < MaxRuns
    /\ run' = run + 1
    /\ hist' = Append(hist, Summary)
    /\ check_mode' \in BOOLEAN
    /\ pc' = "check_existence"
    /\ resource' = None
    /\ plan' = <<>>
    /\ has_changed' = FALSE
    /\ cache' = <<>>
    /\ reqs' = <<>>
    /\ stage' = NoLinkFields
    /\ outcome' = Running
    /\ UNCHANGED <<ctx, params, backend, orders, planner, idx, poll_uuid, elapsed,
                   executed, response, status_code, polled>>

NextLink ==
    \/ LinkRunner_run
    \/ LinkRunner_handle_check_mode
    \/ LinkRunner_execute_change_plan
    \/ LinkRunner_exit
    \/ LinkBackendApplies
    \/ LinkNextRun

SpecLink == LinkInit /\ [][NextLink]_vars

\* ------------------------------------------------------------------------
\* The resolver's recursion: resolve calls _resolve_single_value, which
\* calls _build_dependency_filters, which calls resolve for a source
\* parameter that is not cached.  `stage` holds the call stack, one frame
\* per resolve call with the position in its filter_by list; `cache` holds
\* the bare parameter names the cache has an object for.
\* ------------------------------------------------------------------------

\* The depth at which the interpreter raises RecursionError
\* (sys.getrecursionlimit(), in resolve calls).
MaxDepth == 4

DepParams == {"offering", "flavor", "subnet"}

\* context["resolvers"][name]["filter_by"] as the list of its source_param:
\* a chain, two sources, two parameters that name each other, and a
\* parameter that names itself.
DepConfigs ==
    { [offering |-> <<>>, flavor |-> <<"offering">>, subnet |-> <<"flavor">>],
      [offering |-> <<>>, flavor |-> <<"offering">>, subnet |-> <<"offering", "flavor">>],
      [offering |-> <<>>, flavor |-> <<"subnet">>, subnet |-> <<"flavor">>],
      [offering |-> <<"offering">>, flavor |-> <<>>, subnet |-> <<>>] }

Frame(param_name, dep) == [param_name |-> param_name, dep |-> dep]

DepsInit ==
    /\ ctx \in [variant : {"marketplace", "openstack"}, filter_by : DepConfigs]
    /\ params \in [DepParams -> {PyNone, "name"}]
    /\ cache \in SUBSET {"offering"}
    /\ \E param_name \in DepParams :
         /\ params[param_name] # PyNone
         /\ stage = <<Frame(param_name, 1)>>
    /\ pc = "resolving"
    /\ outcome = Running
    /\ hist = <<>>
    /\ reqs = <<>>
    /\ resource = None
    /\ check_mode = FALSE
    /\ backend = <<>>
    /\ orders = <<>>
    /\ run = 1
    /\ plan = <<>>
    /\ planner = "none"
    /\ has_changed = FALSE
    /\ idx = 0
    /\ poll_uuid = ""
    /\ elapsed = 0
    /\ executed = <<>>
    /\ response = <<>>
    /\ status_code = <<>>
    /\ polled = None

\* The innermost call and the filter_by list of its parameter.
TopFrame == stage[Len(stage)]
TopDeps == ctx.filter_by[TopFrame.param_name]

\* The caller goes on with its next dependency.
Advanced(stack) ==
    IF Len(stack) = 0 THEN stack
    ELSE [stack EXCEPT ![Len(stack)].dep = @ + 1]

\* _build_dependency_filters, one dependency: the source object is taken
\* from the cache, or the source parameter the user gave is resolved
\* first, or the dependency is skipped; the older resolver of the
\* openstack collection fails when the source is not cached.
Deps_build_dependency_filters ==
    /\ pc = "resolving"
    /\ TopFrame.dep <= Len(TopDeps)
    /\ LET source_param == TopDeps[TopFrame.dep]
       IN  IF source_param \in cache
           THEN /\ stage' = Advanced(stage)
                /\ UNCHANGED <<pc, outcome>>
           ELSE IF ctx.variant = "openstack"
           THEN /\ Fail("UnsatisfiedDependency")
                /\ UNCHANGED stage
           ELSE IF params[source_param] # PyNone
           THEN IF Len(stage) < MaxDepth
                THEN /\ stage' = Append(stage, Frame(source_param, 1))
                     /\ UNCHANGED <<pc, outcome>>
                ELSE /\ pc' = "crashed"
                     /\ UNCHANGED <<stage, outcome>>
           ELSE /\ stage' = Advanced(stage)
                /\ UNCHANGED <<pc, outcome>>
    /\ UNCHANGED <<ctx, params, check_mode, backend, orders, run, resource, plan, planner,
                   has_changed, idx, poll_uuid, elapsed, cache, reqs, executed, response,
                   status_code, polled, hist>>

\* _resolve_single_value after its filters are built: the lookup, the cache
\* entries, and the return to the caller.
Deps_lookup ==
    /\ pc = "resolving"
    /\ TopFrame.dep > Len(TopDeps)
    /\ \E found \in BOOLEAN :
         IF ~found
         THEN /\ Fail("NotFound")
              /\ UNCHANGED <<stage, cache, reqs>>
         ELSE /\ cache' = cache \cup {TopFrame.param_name}
              /\ reqs' = Append(reqs, TopFrame.param_name)
              /\ stage' = Advanced(SubSeq(stage, 1, Len(stage) - 1))
              /\ IF Len(stage) = 1
                 THEN pc' = "done" /\ UNCHANGED outcome
                 ELSE UNCHANGED <<pc, outcome>>
    /\ UNCHANGED <<ctx, params, check_mode, backend, orders, run, resource, plan, planner,
                   has_changed, idx, poll_uuid, elapsed, executed, response, status_code,
                   polled, hist>>

NextDeps ==
    \/ Deps_build_dependency_filters
    \/ Deps_lookup

SpecDeps == DepsInit /\ [][NextDeps]_vars

\* The interpreter goes on with the call as long as it has a step to take.
SpecDepsFair == SpecDeps /\ WF_vars(NextDeps)

\* ------------------------------------------------------------------------
\* The normaliser on its own: _build_action_update_commands normalises the
\* user's value and the resource's value, which the backend may hold in
\* another order, with the same identity keys and defaults.
\* ------------------------------------------------------------------------

Scalars == {VStr("a"), VStr("b"), VStr("c")}

ScalarLists == UNION {[1..n -> Scalars] : n \in 0..MaxLen}

\* None, a scalar, dicts, lists of scalars, lists of dicts and mixed lists.
NormalizerValues ==
    {VNone, VStr("a"), Port("net-a"), PortWithIp("net-a", "10.0.0.1")}
    \cup {VList(l) : l \in ScalarLists}
    \cup {VList(l) : l \in PortLists}
    \cup {VList(<<Port("net-a"), VStr("a")>>), VList(<<VStr("a"), Port("net-a")>>)}

NormalizerKeys == {<<>>, <<"subnet">>, <<"subnet", "ip">>}

NormalizerDefaults == {NoDefaults, [ip |-> AssignedIp]}

NormalizerInit ==
    /\ ctx \in [value : NormalizerValues, idempotency_keys : NormalizerKeys,
                defaults_map : NormalizerDefaults]
    /\ hist = <<>>
    /\ pc = "normalizing"
    /\ params = [state |-> "present"]
    /\ resource = None
    /\ cache = {}
    /\ reqs = <<>>
    /\ outcome = Running
    /\ check_mode = FALSE
    /\ backend = <<>>
    /\ orders = <<>>
    /\ run = 1
    /\ plan = <<>>
    /\ planner = "none"
    /\ has_changed = FALSE
    /\ idx = 0
    /\ poll_uuid = ""
    /\ elapsed = 0
    /\ executed = <<>>
    /\ response = <<>>
    /\ status_code = <<>>
    /\ stage = <<>>
    /\ polled = None

\* One call of _normalize_for_comparison, recorded with its argument, and
\* what the order runner's variant returns for the same argument.
Normalized(value) ==
    /\ hist' = Append(hist, [value |-> value,
                             result |-> normalize_for_comparison(
                                            value, ctx.idempotency_keys, ctx.defaults_map),
                             order_result |-> OrderRunner_normalize_for_comparison(
                                                  value, ctx.idempotency_keys)])
    /\ UNCHANGED <<ctx, params, check_mode, backend, orders, run, pc, resource, plan,
                   planner, has_changed, idx, poll_uuid, elapsed, cache, reqs, executed,
                   response, status_code, stage, polled, outcome>>

\* normalized_new = self._normalize_for_comparison(resolved_payload, ...)
Normalizer_normalize_new ==
    /\ pc = "normalizing"
    /\ Len(hist) = 0
    /\ Normalized(ctx.value)

\* normalized_old = self._normalize_for_comparison(resource_value, ...):
\* the same items in any order.
Normalizer_normalize_old ==
    /\ pc = "normalizing"
    /\ Len(hist) = 1
    /\ IsList(ctx.value)
    /\ \E perm \in Permutations(1..Len(ctx.value.v)) :
         Normalized(VList([i \in 1..Len(ctx.value.v) |-> ctx.value.v[perm[i]]]))

\* The forms in which the backend returns an item of a list of objects the
\* user gave: as given, with a server-generated field added, or with the
\* optional key the user omitted stated with the value the backend assigned.
BackendForms == {"as_given", "server_fields", "explicit_default"}

AsBackendHolds(item, form) ==
    IF form = "server_fields"
    THEN VDict([k \in (DOMAIN item.v) \cup {"uuid"} |->
                   IF k = "uuid" THEN "uuid-p1" ELSE item.v[k]])
    ELSE IF form = "explicit_default"
    THEN VDict([k \in (DOMAIN item.v) \cup {"ip"} |->
                   IF k \in DOMAIN item.v THEN item.v[k] ELSE AssignedIp])
    ELSE item

\* normalized_old = self._normalize_for_comparison(resource_value, ...) for
\* a list of objects: the backend's form of the items, in any order.
Normalizer_normalize_resource ==
    /\ pc = "normalizing"
    /\ Len(hist) = 1
    /\ NonEmptyList(ctx.value)
    /\ \A i \in 1..Len(ctx.value.v) : IsDict(ctx.value.v[i])
    /\ \E perm \in Permutations(1..Len(ctx.value.v)) :
       \E form \in BackendForms \ {"as_given"} :
         Normalized(VList([i \in 1..Len(ctx.value.v) |->
                             AsBackendHolds(ctx.value.v[perm[i]], form)]))

NextNormalizer ==
    \/ Normalizer_normalize_new
    \/ Normalizer_normalize_old
    \/ Normalizer_normalize_resource

SpecNormalizer == NormalizerInit /\ [][NextNormalizer]_vars

\* ------------------------------------------------------------------------
\* Properties
\* ------------------------------------------------------------------------

CommandTypes(p) == [i \in 1..Len(p) |-> p[i].command_type]

\* C1: once run() has planned, the planning method it called is fixed by the
\* desired state and the existence found by the existence check: present and
\* absent gives plan_creation (one create command), present and existing
\* gives plan_update (update and action commands only), absent and existing
\* gives plan_deletion (one delete command), and absent and absent calls no
\* planning method and leaves the plan empty.
C1_Dispatch ==
    pc = "mode" =>
        /\ (params.state = "present" /\ resource = None) =>
               planner = "plan_creation" /\ CommandTypes(plan) = <<"create">>
        /\ (params.state = "present" /\ resource # None) =>
               /\ planner = "plan_update"
               /\ \A i \in 1..Len(plan) : plan[i].command_type \in {"update", "action"}
        /\ (params.state = "absent" /\ resource # None) =>
               planner = "plan_deletion" /\ CommandTypes(plan) = <<"delete">>
        /\ (params.state = "absent" /\ resource = None) =>
               planner = "none" /\ plan = <<>>

\* A run that found the resource while the desired state is absent has
\* planned its deletion.
C1_Witness ==
    /\ pc = "mode"
    /\ params.state = "absent"
    /\ resource # None
    /\ planner = "plan_deletion"

\* C2: a run in check mode executes no command and sends no write: every
\* request it sends is a GET of the existence check or of a resolver lookup,
\* and it never enters the execution loop or the polling loop.
C2_CheckModeReadOnly ==
    check_mode =>
        /\ \A i \in 1..Len(reqs) :
              reqs[i].method = "GET" /\ reqs[i].what \in {"check_existence", "resolve"}
        /\ \A i \in 1..Len(executed) : executed[i] = 0
        /\ pc \notin {"execute", "wait"}

\* A check-mode run ended with a non-empty plan after resolving a name.
C2_Witness ==
    /\ check_mode
    /\ pc = "exited"
    /\ Len(plan) > 0
    /\ \E i \in 1..Len(reqs) : reqs[i].what = "resolve"

\* C4: the changed flag a run reports on exit is true exactly when its plan
\* is non-empty, in apply mode and in check mode alike.
C4_ChangedIffPlanNonEmpty ==
    pc = "exited" => (outcome.changed <=> Len(plan) > 0)

\* A check-mode run exited unchanged with an empty plan after an apply-mode
\* run exited changed with a non-empty plan.
C4_Witness ==
    /\ pc = "exited"
    /\ check_mode
    /\ plan = <<>>
    /\ ~outcome.changed
    /\ Len(hist) = 1
    /\ ~hist[1].check_mode
    /\ hist[1].outcome.kind = "exit"
    /\ hist[1].outcome.changed
    /\ Len(hist[1].plan) > 0

\* The value the backend holds for what command `cmd` wrote is one the
\* command's request can have left.
EffectApplied(cmd) ==
    /\ Len(backend) = 1
    /\ cmd.command_type = "update" =>
          \A k \in DOMAIN UpdatePayload(cmd.data.changes) :
             backend[1][k] = UpdatePayload(cmd.data.changes)[k]
    /\ cmd.command_type = "action" =>
          backend[1][ActionOf(ctx, cmd).compare_key]
              \in StoredItems(ActionOf(ctx, cmd), cmd.data.v)

\* The polls of the run that the backend answered with 404.
PollsOfGone == {i \in 1..Len(reqs) : reqs[i].what = "poll" /\ reqs[i].status = 404}

\* C5: a request the backend answers with an error is the last request of
\* its run and the run has failed.  When the run failed while handling the
\* k-th command, every command before it was executed once and finished and
\* its effect is still on the backend (unless the backend itself removed the
\* object that was being polled), no command after it was executed, and the
\* run sent k writes: none to undo an earlier one.
C5_AbortOnFailure ==
    /\ \A i \in 1..Len(reqs) :
          reqs[i].status >= 400 => pc = "failed" /\ i = Len(reqs)
    /\ (pc = "failed" /\ idx >= 1) =>
          /\ \A j \in 1..(idx - 1) :
                /\ executed[j] = 1 /\ stage[j] = "finished"
                /\ PollsOfGone = {} => EffectApplied(plan[j])
          /\ executed[idx] = 1
          /\ \A j \in (idx + 1)..Len(plan) : executed[j] = 0 /\ stage[j] = "planned"
          /\ Len(Writes(reqs)) = idx
          /\ reqs[Len(reqs)].op = idx

\* The backend rejected the second command of a three-command plan.
C5_Witness ==
    /\ pc = "failed"
    /\ Len(plan) = 3
    /\ idx = 2
    /\ reqs[Len(reqs)].status = 400
    /\ executed = <<1, 1, 0>>

\* The positions in the plan of the commands the run's requests belong to.
OpsOf(rs) == [i \in 1..Len(rs) |-> rs[i].op]

\* C6: the commands are handled one at a time in plan order.  While command
\* idx is being executed or polled, every earlier command was executed once
\* and is finished, polling included, and no later command was started; the
\* requests of the run are ordered by the position of their command, each
\* command's write before its polls; and when the next command starts, the
\* runner's resource is what the previous command left: the object of its
\* final poll when it was waited for, else the resource merged with the
\* body the previous update returned.
C6_Sequential ==
    /\ \A i, j \in 1..Len(reqs) : i < j => reqs[i].op <= reqs[j].op
    /\ \A j \in 1..Len(reqs) :
          reqs[j].what = "poll" =>
             \E i \in 1..(j - 1) : reqs[i].what = "execute" /\ reqs[i].op = reqs[j].op
    /\ pc \in {"execute", "wait"} =>
          /\ idx \in 1..Len(plan)
          /\ \A j \in 1..(idx - 1) : executed[j] = 1 /\ stage[j] = "finished"
          /\ \A j \in (idx + 1)..Len(plan) : executed[j] = 0 /\ stage[j] = "planned"
          /\ stage[idx] = IF pc = "wait" THEN "waiting" ELSE "planned"
    /\ (pc = "execute" /\ idx > 1) =>
          LET prev == plan[idx - 1]
          IN  /\ (Truthy(prev.wait_config) /\ params.wait) =>
                    /\ reqs[Len(reqs)] = Req("GET", "poll", idx - 1, 200)
                    /\ resource = polled
                    /\ The(polled).state \in OkStates
              /\ (prev.command_type = "update" /\ Truthy(response[idx - 1])) =>
                    \A k \in DOMAIN The(response[idx - 1]) :
                       The(resource)[k] = The(response[idx - 1])[k]

\* The third command of a plan is about to start after the second was
\* polled to completion.
C6_Witness ==
    /\ pc = "execute"
    /\ idx = 3
    /\ OpsOf(reqs)[Len(reqs)] = 2
    /\ reqs[Len(reqs)].what = "poll"
    /\ \E i \in 1..Len(reqs) : reqs[i].what = "poll" /\ reqs[i].op = 2 /\ i < Len(reqs)

\* The requests of the run that belong to the k-th command of the plan.
RequestsOf(k) == SelectSeq(reqs, LAMBDA r : r.op = k)

\* C7: no command is executed more than once; a command that was executed
\* sent exactly one request, its write, with the command's method, and every
\* other request made while it is handled is a polling GET; a command that
\* was not executed sent nothing.  The writes of the run are the writes of
\* its executed commands.
C7_OneWritePerCommand ==
    /\ \A k \in 1..Len(plan) :
          /\ executed[k] <= 1
          /\ Len(Writes(RequestsOf(k))) = executed[k]
          /\ executed[k] = 0 => RequestsOf(k) = <<>>
          /\ executed[k] = 1 =>
                /\ RequestsOf(k)[1].what = "execute"
                /\ RequestsOf(k)[1].method = plan[k].method
                /\ plan[k].method \in {"POST", "PATCH", "DELETE"}
                /\ \A i \in 2..Len(RequestsOf(k)) :
                      RequestsOf(k)[i].method = "GET" /\ RequestsOf(k)[i].what = "poll"
    /\ \A i \in 1..Len(reqs) : reqs[i].method # "GET" => reqs[i].op \in 1..Len(plan)

\* A command was executed and then polled twice.
C7_Witness ==
    \E k \in 1..Len(plan) :
        /\ executed[k] = 1
        /\ Len(RequestsOf(k)) = 3
        /\ stage[k] = "finished"

\* The last finished run was an apply-mode run that exited after planning
\* with `method`.
LastRunApplied(method) ==
    /\ Len(hist) > 0
    /\ ~hist[Len(hist)].check_mode
    /\ hist[Len(hist)].outcome.kind = "exit"
    /\ hist[Len(hist)].planner = method

\* C8: when the resource is to be present and does not exist, the plan is
\* exactly one create command; when the apply run has exited, the backend
\* holds one resource, the created one, which is the runner's and the
\* reported resource; and the existence check of the following run finds
\* that same object.
C8_CreateScenario ==
    /\ (planner = "plan_creation" /\ pc \in {"mode", "execute", "wait", "exited"}) =>
          /\ Len(plan) = 1
          /\ plan[1].command_type = "create"
          /\ plan[1].method = "POST"
    /\ (planner = "plan_creation" /\ pc = "exited" /\ ~check_mode) =>
          /\ executed = <<1>>
          /\ Len(backend) = 1
          /\ resource = Some(backend[1])
          /\ outcome.resource = resource
          /\ response[1] = resource
    /\ (LastRunApplied("plan_creation") /\ pc = "plan") =>
          /\ Truthy(resource)
          /\ resource = hist[Len(hist)].outcome.resource

\* The run that follows a successful creation has made its existence check.
C8_Witness ==
    /\ LastRunApplied("plan_creation")
    /\ pc = "plan"
    /\ Truthy(resource)
    /\ NonEmptyList(The(resource).items)

\* C10: when the resource is to be absent and exists, the plan is exactly
\* one delete command for the resource found; when the apply run has exited,
\* the command was executed once, the runner's resource and the reported
\* resource are null and the backend no longer holds the resource; and the
\* existence check of the following run finds nothing.
C10_DeleteScenario ==
    /\ (planner = "plan_deletion" /\ pc \in {"mode", "execute", "wait", "exited"}) =>
          /\ Len(plan) = 1
          /\ plan[1].command_type = "delete"
          /\ plan[1].method = "DELETE"
          /\ plan[1].path_uuid = "r1"
    /\ (planner = "plan_deletion" /\ pc = "exited" /\ ~check_mode) =>
          /\ executed = <<1>>
          /\ resource = None
          /\ outcome.resource = None
          /\ outcome.changed
          /\ backend = <<>>
    /\ (LastRunApplied("plan_deletion") /\ pc = "plan") => resource = None

\* The run that follows a successful deletion has made its existence check.
C10_Witness ==
    /\ LastRunApplied("plan_deletion")
    /\ hist[Len(hist)].writes = 1
    /\ pc = "plan"
    /\ resource = None

\* The last finished run was an apply-mode run that exited.
LastRunSucceeded ==
    /\ Len(hist) > 0
    /\ ~hist[Len(hist)].check_mode
    /\ hist[Len(hist)].outcome.kind = "exit"

\* The current run has planned nothing, and if it has exited it reported no
\* change and sent no write.
RunIsNoOp ==
    /\ plan = <<>>
    /\ pc = "exited" => ~outcome.changed /\ Writes(reqs) = <<>>

Planned == pc \in {"mode", "execute", "wait", "exited"}

UserProvidedKeys(value) ==
    UNION {IF IsDict(value.v[i]) THEN DOMAIN value.v[i].v ELSE {} : i \in 1..Len(value.v)}

\* The desired value of an action-managed parameter has an order-insensitive
\* normal form that the stored value shares: it is not supplied, or it is a
\* list of scalars, or it is a list of objects compared on configured
\* idempotency keys, where every key the list states in some object is
\* stated in each object or supplied by the defaults map.
Comparable(ai, value) ==
    \/ ~IsList(value)
    \/ \A i \in 1..Len(value.v) : ~IsDict(value.v[i])
    \/ /\ Len(ai.idempotency_keys) > 0
       /\ \A i \in 1..Len(value.v) :
             /\ IsDict(value.v[i])
             /\ \A k \in Range(ai.idempotency_keys) \cap UserProvidedKeys(value) :
                   k \in (DOMAIN value.v[i].v) \cup (DOMAIN ai.defaults_map)

AllComparable ==
    \A i \in 1..Len(ctx.update_actions) :
        Comparable(ctx.update_actions[i], params[ctx.update_actions[i].param])

C9_ReportedResource ==
    (pc = "exited" /\ ~check_mode /\ params.state = "present" /\ params.wait) =>
        outcome.resource # None

\* The update commands of a plan.
UpdateCommands(p) == SelectSeq(p, LAMBDA cmd : cmd.command_type = "update")

\* The configured update fields the user supplied with a value other than
\* the resource's, in configuration order.
FieldsToChange ==
    SelectSeq(ctx.update_fields,
              LAMBDA f : params[f] # PyNone /\ params[f] # The(resource)[f])

\* C11: the update command of an update plan carries exactly the changed
\* scalar fields: one {param, old, new} entry for each configured update
\* field that is supplied and differs from the current value, none for an
\* omitted or unchanged field, and the PATCH payload is exactly the new
\* values of those fields.
C11_UpdateCarriesChanges ==
    (pc = "mode" /\ planner = "plan_update") =>
        LET ups == UpdateCommands(plan)
        IN  /\ (Len(ups) = 0) <=> (Len(FieldsToChange) = 0)
            /\ \A i \in 1..Len(ups) :
                  /\ ups[i].method = "PATCH"
                  /\ ups[i].data.changes =
                        [j \in 1..Len(FieldsToChange) |->
                            [param |-> FieldsToChange[j],
                             old |-> The(resource)[FieldsToChange[j]],
                             new |-> params[FieldsToChange[j]]]]
                  /\ UpdatePayload(ups[i].data.changes) =
                        [f \in Range(FieldsToChange) |-> params[f]]

\* An update is planned for a resource one of whose supplied fields differs
\* while another supplied field is already as desired.
C11_Witness ==
    /\ pc = "mode" /\ planner = "plan_update"
    /\ params.description = "old" /\ The(resource).description = "old"
    /\ params.title = "t" /\ The(resource).title = "u"
    /\ Len(UpdateCommands(plan)) = 1
    /\ Len(UpdateCommands(plan)[1].data.changes) = 1
    /\ UpdateCommands(plan)[1].data.changes[1].param = "title"

\* The positions in a plan of the action commands sent to a path.
ActionPositions(p, path) ==
    {i \in 1..Len(p) : p[i].command_type = "action" /\ p[i].path = path}

\* The parameter of a configured action is supplied and its normalised
\* desired value differs from the normalised current value.
ActionDue(ai) ==
    /\ params[ai.param] # VNone
    /\ LET resolved_payload == resolve(ai, params[ai.param])
       IN  NormalizedNew(ai, resolved_payload)
             # NormalizedOld(ai, params[ai.param], resolved_payload,
                             The(resource)[ai.compare_key])

\* C12: plan_update builds at most one update command, placed before every
\* action command, and exactly one action command for each configured
\* action whose parameter is supplied and whose normalised desired value
\* differs from the normalised current one; none for an action whose
\* parameter is omitted or whose normalised values are equal.
C12_PlanUpdateShape ==
    (pc = "mode" /\ planner = "plan_update") =>
        /\ Len(UpdateCommands(plan)) <= 1
        /\ \A i \in 1..Len(plan) : plan[i].command_type \in {"update", "action"}
        /\ \A i, j \in 1..Len(plan) :
              (plan[i].command_type = "update" /\ plan[j].command_type = "action") => i < j
        /\ \A k \in 1..Len(ctx.update_actions) :
              Cardinality(ActionPositions(plan, ctx.update_actions[k].path))
                = IF ActionDue(ctx.update_actions[k]) THEN 1 ELSE 0

\* An update plan of an update followed by one action, with a second
\* configured action whose parameter the user omitted.
C12_Witness ==
    /\ pc = "mode" /\ planner = "plan_update"
    /\ Len(ctx.update_actions) = 2
    /\ params.rules = VNone
    /\ Len(plan) = 2
    /\ plan[1].command_type = "update"
    /\ plan[2].command_type = "action" /\ plan[2].path = "update_items"

\* The references a list of names resolves to, and the references a list of
\* rich objects holds under `url`.
DesiredRefs(value) == {UrlOf(value.v[i].v) : i \in 1..Len(value.v)}
CurrentRefs(value) == {value.v[i].v.url : i \in 1..Len(value.v)}

\* A non-empty list of rich objects that each hold a reference under `url`.
IsRichList(value) ==
    /\ NonEmptyList(value)
    /\ \A i \in 1..Len(value.v) : IsDict(value.v[i]) /\ "url" \in DOMAIN value.v[i].v

\* C13: when the desired value resolves to a simple list of references and
\* the current value is a list of rich objects holding their reference
\* under `url`, the two are compared as sets of references: one action
\* command is planned exactly when the sets differ, and a run that follows
\* a successful apply run with the same desired list plans no action.
C13_CrossShape ==
    \A k \in 1..Len(ctx.update_actions) :
        LET ai == ctx.update_actions[k]
        IN  (ai.resolver = "is_list" /\ NonEmptyList(params[ai.param])) =>
              /\ (pc = "mode" /\ planner = "plan_update"
                    /\ IsRichList(The(resource)[ai.compare_key])) =>
                    Cardinality(ActionPositions(plan, ai.path))
                      = IF DesiredRefs(params[ai.param])
                             # CurrentRefs(The(resource)[ai.compare_key])
                        THEN 1 ELSE 0
              /\ (LastRunSucceeded /\ Planned) => ActionPositions(plan, ai.path) = {}

\* The first run planned one action for the list [sg-a, sg-b] and applied
\* it; the second run finds both references stored and plans nothing.
C13_Witness ==
    /\ LastRunSucceeded
    /\ hist[Len(hist)].planner = "plan_update"
    /\ Len(hist[Len(hist)].plan) = 1
    /\ hist[Len(hist)].plan[1].command_type = "action"
    /\ hist[Len(hist)].plan[1].path = "update_items"
    /\ params.items = VList(<<VStr("sg-a"), VStr("sg-b")>>)
    /\ ctx.update_actions[1].resolver = "is_list"
    /\ pc = "mode" /\ planner = "plan_update"
    /\ IsRichList(The(resource).items) /\ Len(The(resource).items.v) = 2
    /\ plan = <<>>

\* ------------------------------------------------------------------------
\* Properties of the resolver
\* ------------------------------------------------------------------------

\* The positions in the request log of the resolver's GETs.
LookupPositions == {i \in 1..Len(reqs) : reqs[i].method = "GET"}

\* The GETs the k-th call sent for a value.
LookupsOf(k, value) ==
    {i \in LookupPositions : reqs[i].call = k /\ reqs[i].value = value}

ResolutionCalls == {k \in 1..Len(hist) : hist[k].fn \in {"resolve", "resolve_to_url"}}

\* C14: resolving a UUID-shaped value never issues a filtered list request:
\* the reference is built from the endpoint and the UUID with no request,
\* or fetched with a single GET of that object.
C14_UuidNeverSearched ==
    /\ \A i \in LookupPositions :
          is_uuid(reqs[i].value) =>
              /\ reqs[i].what = "direct"
              /\ reqs[i].url = DetailUrl(Resolvers[reqs[i].param_name].url, reqs[i].value)
    /\ \A k \in ResolutionCalls :
          (hist[k].param_name \notin ListParams /\ is_uuid(hist[k].value)) =>
              /\ Cardinality(LookupsOf(k, hist[k].value)) <= 1
              /\ hist[k].fn = "resolve_to_url" => LookupsOf(k, hist[k].value) = {}
              /\ hist[k].error = "" =>
                    hist[k].result = DetailUrl(Resolvers[hist[k].param_name].url,
                                               hist[k].value)

\* A UUID was resolved once by resolve_to_url, with no request, and once by
\* resolve, with one GET of the object.
C14_Witness ==
    \E j, k \in ResolutionCalls :
        /\ hist[j].fn = "resolve_to_url" /\ hist[k].fn = "resolve"
        /\ hist[j].param_name = "flavor" /\ hist[k].param_name = "offering"
        /\ hist[j].value = "uuid-f1" /\ hist[k].value = "uuid-o1"
        /\ hist[j].error = "" /\ hist[k].error = ""
        /\ LookupsOf(j, "uuid-f1") = {}
        /\ Cardinality(LookupsOf(k, "uuid-o1")) = 1

\* The searches by name whose answer holds n objects or more / exactly none.
SearchesAnswered(n) ==
    {i \in LookupPositions :
        reqs[i].what = "search" /\ Len(Search(reqs[i].url, reqs[i].query)) >= n}

SearchesUnanswered == LookupPositions \ SearchesAnswered(1)

\* C15: a search by name that returns no object fails the run with
\* NotFound: the call returns nothing, nothing is cached for the (name,
\* value) pair and no request follows, so no write is issued.
C15_NotFoundIsFatal ==
    \A i \in SearchesUnanswered :
        reqs[i].what = "search" =>
            /\ pc = "failed"
            /\ outcome.kind = "fail" /\ outcome.error = "NotFound"
            /\ hist[reqs[i].call].error = "NotFound"
            /\ hist[reqs[i].call].result = PyNone
            /\ CacheKey(reqs[i].param_name, reqs[i].value) \notin DOMAIN cache
            /\ i = Len(reqs)

\* After a successful resolution the search for a name nothing carries
\* failed the run.
C15_Witness ==
    /\ pc = "failed" /\ outcome.error = "NotFound"
    /\ Len(hist) = 2 /\ hist[1].error = ""
    /\ Len(reqs) \in SearchesUnanswered
    /\ reqs[Len(reqs)].value = "missing"

\* C16: a search by name that resolve() sends for a payload value and that
\* returns two objects or more fails the run with AmbiguousReference: the
\* first match is not returned, not cached and no request follows.
C16_AmbiguousIsFatal ==
    \A i \in SearchesAnswered(2) :
        hist[reqs[i].call].fn = "resolve" =>
        /\ pc = "failed"
        /\ outcome.kind = "fail" /\ outcome.error = "AmbiguousReference"
        /\ hist[reqs[i].call].result = PyNone
        /\ CacheKey(reqs[i].param_name, reqs[i].value) \notin DOMAIN cache
        /\ i = Len(reqs)

\* C17: within a run at most one backend lookup is issued for a
\* (parameter name, value) pair, however often the pair is resolved.
C17_AtMostOneLookup ==
    \A i, j \in LookupPositions :
        (reqs[i].param_name = reqs[j].param_name /\ reqs[i].value = reqs[j].value) => i = j

\* The (name, value) pairs the last call resolved: the parameter's own
\* value, or the subnet of each port.
ResolvedPairs(h) ==
    IF h.param_name \in ListParams
    THEN [i \in 1..Len(h.value.v) |-> <<"subnet", h.value.v[i].v.subnet>>]
    ELSE << <<h.param_name, h.value>> >>

\* C18: after a successful resolution of a value for a name, top-level or
\* nested, the cache holds the object under (name, value) and under the
\* bare name, and the bare name holds the object resolved last.
C18_CachedUnderBothKeys ==
    (Len(hist) > 0 /\ Len(hist) \in ResolutionCalls /\ hist[Len(hist)].error = ""
       /\ pc = "resolving") =>
        LET pairs == ResolvedPairs(hist[Len(hist)])
        IN  /\ \A i \in 1..Len(pairs) : CacheKey(pairs[i][1], pairs[i][2]) \in DOMAIN cache
            /\ BareKey(pairs[Len(pairs)][1]) \in DOMAIN cache
            /\ cache[BareKey(pairs[Len(pairs)][1])]
                  = cache[CacheKey(pairs[Len(pairs)][1], pairs[Len(pairs)][2])]

\* The calls of resolve() that look a parameter with filter_by rules up by
\* name.
DependentCalls ==
    {k \in 1..Len(hist) : /\ hist[k].fn = "resolve"
                          /\ hist[k].param_name \in DOMAIN Resolvers
                          /\ Len(Resolvers[hist[k].param_name].filter_by) > 0
                          /\ ~is_uuid(hist[k].value) /\ ~is_url(hist[k].value)}

\* The searches the k-th call sent for its own parameter.
OwnSearches(k) ==
    {i \in LookupPositions : /\ reqs[i].call = k /\ reqs[i].what = "search"
                             /\ reqs[i].param_name = hist[k].param_name}

\* The lookups the k-th call sent for another parameter.
SourceLookups(k, source_param) ==
    {i \in LookupPositions : reqs[i].call = k /\ reqs[i].param_name = source_param}

Carries(i, dep, source_object) ==
    /\ dep.target_key \in DOMAIN reqs[i].query
    /\ reqs[i].query[dep.target_key] = source_object[dep.source_key]

\* C19: a filter_by dependency is taken from the bare cache entry of
\* source_param when there is one, and otherwise by resolving the value the
\* user supplied for source_param before the dependent search is sent; the
\* dependent search carries target_key = source object's source_key for
\* every rule.
C19_DependencySource ==
    \A k \in DependentCalls :
        \A d \in 1..Len(Resolvers[hist[k].param_name].filter_by) :
            LET dep == Resolvers[hist[k].param_name].filter_by[d]
                bare == BareKey(dep.source_param)
            IN  /\ bare \in DOMAIN hist[k].before =>
                      /\ SourceLookups(k, dep.source_param) = {}
                      /\ \A i \in OwnSearches(k) : Carries(i, dep, hist[k].before[bare])
                /\ (bare \notin DOMAIN hist[k].before /\ Supplied(dep.source_param)) =>
                      /\ hist[k].error # "ConfigurationError"
                      /\ \A i \in OwnSearches(k) :
                            /\ \E j \in SourceLookups(k, dep.source_param) : j < i
                            /\ Carries(i, dep, cache[bare])

\* C20: when a filter_by dependency is neither in the cache nor supplied by
\* the user, resolve() fails with ConfigurationError and sends no search
\* for the dependent; no search of a dependent lacks a rule's filter.
C20_UnsatisfiedDependencyIsFatal ==
    \A k \in DependentCalls :
        \A d \in 1..Len(Resolvers[hist[k].param_name].filter_by) :
            LET dep == Resolvers[hist[k].param_name].filter_by[d]
            IN  /\ (BareKey(dep.source_param) \notin DOMAIN hist[k].before
                      /\ ~Supplied(dep.source_param)) =>
                      /\ hist[k].error = "ConfigurationError"
                      /\ OwnSearches(k) = {}
                /\ \A i \in OwnSearches(k) : dep.target_key \in DOMAIN reqs[i].query

\* C21: resolving a value that is already an http(s) locator returns that
\* locator with no request or with one direct GET of it; the locator is
\* never sent as the name of a search.
C21_LocatorNeverSearched ==
    /\ \A i \in LookupPositions :
          is_url(reqs[i].value) => (reqs[i].what = "direct" /\ reqs[i].url = reqs[i].value)
    /\ \A k \in ResolutionCalls :
          (hist[k].param_name \notin ListParams /\ is_url(hist[k].value)) =>
              /\ Cardinality(LookupsOf(k, hist[k].value)) <= 1
              /\ hist[k].error = ""
              /\ hist[k].result = hist[k].value

\* The state right after check_existence returned, before anything is
\* planned or written.
ExistenceChecked == pc = "plan" \/ (pc = "mode" /\ planner = "none")

\* C22: check_existence of a state-managing runner by result count: no
\* result leaves the resource None, one result makes it the current state,
\* and more than one fails the run; the runner never goes on with the first
\* of several.
C22_ExistenceByCount ==
    ExistenceChecked =>
        /\ Len(backend) <= 1
        /\ Len(backend) = 0 => resource = None
        /\ Len(backend) = 1 => (Truthy(resource) /\ The(resource).uuid = backend[1].uuid)

\* C23: plan_creation checks the required parameters first: when some are
\* missing the run fails with an error naming all of them, and plan_creation
\* sends no lookup and no create request (the log holds the requests of
\* check_existence only).
C23_RequiredFirst ==
    (pc # "plan" /\ pc # "check_existence" /\ planner = "plan_creation"
       /\ Len(MissingRequired(ctx, params)) > 0) =>
        /\ pc = "failed"
        /\ outcome.kind = "fail"
        /\ outcome.error = RequiredMessage(MissingRequired(ctx, params))
        /\ Writes(reqs) = <<>>
        /\ plan = <<>>
        /\ Len(reqs) = 1 + (IF params.project = PyNone THEN 0 ELSE 1)
        /\ reqs[Len(reqs)].what = "check_existence"

C25_PollingEnds == (pc = "wait_order") ~> (pc \in {"exited", "failed"})

\* C26: a poll that receives 404 for the polled object ends the wait as a
\* success with the runner's resource set to None; the run does not fail on
\* that response.
C26_GoneIsSuccess ==
    \A i \in PollsOfGone :
        /\ ~(i = Len(reqs) /\ pc = "failed")
        /\ (i = Len(reqs) /\ pc # "failed") => resource = None

\* The positions in the plan of the executed actions the backend answered
\* with the given status.
ActionsAnswered(status) ==
    {k \in 1..Len(plan) : /\ plan[k].command_type = "action"
                          /\ executed[k] > 0
                          /\ status_code[k] = status}

\* The positions in the log of the fetches of the current state made after
\* the write of command k.
RefetchesAfter(k) ==
    {i \in 1..Len(reqs) :
        /\ reqs[i].what = "check_existence"
        /\ \E j \in 1..Len(reqs) : j < i /\ reqs[j].what = "execute" /\ reqs[j].op = k}

\* C27: after an action is executed, polling starts only when the response
\* status is 202, the command has a wait spec and waiting is enabled; an
\* action answered with 200 is complete: it is not polled, and the run
\* fetches the resource again before it exits.
C27_PollOnlyAfter202 ==
    /\ \A i \in 1..Len(reqs) :
          (reqs[i].what = "poll" /\ plan[reqs[i].op].command_type = "action") =>
              /\ status_code[reqs[i].op] = 202
              /\ Truthy(plan[reqs[i].op].wait_config)
              /\ params.wait
    /\ \A k \in ActionsAnswered(200) :
          /\ stage[k] # "waiting"
          /\ pc = "exited" => RefetchesAfter(k) # {}

\* The executed commands that left the runner's state stale: the actions
\* that were not waited for.
StaleSignals ==
    {k \in 1..Len(plan) : /\ plan[k].command_type = "action"
                          /\ executed[k] > 0
                          /\ ~(status_code[k] = 202 /\ Truthy(plan[k].wait_config)
                               /\ params.wait)}

\* The fetches of the current state made after the run's first write.
Refetches ==
    {i \in 1..Len(reqs) :
        /\ reqs[i].what = "check_existence"
        /\ \E j \in 1..Len(reqs) : j < i /\ reqs[j].what = "execute"}

\* C28: an apply-mode run that executed a command signalling a stale state
\* fetches the current state exactly once, after the last command, and
\* reports what it fetched; a run in which no command signalled it fetches
\* nothing after its writes.
C28_RefetchOnce ==
    (pc = "exited" /\ ~check_mode /\ Len(plan) > 0) =>
        IF StaleSignals # {}
        THEN /\ Cardinality(Refetches) = 1
             /\ \A i \in Refetches : i = Len(reqs)
             /\ outcome.resource = (IF Len(backend) = 0 THEN None ELSE Some(backend[1]))
        ELSE Refetches = {}

\* C29: for any value that is not a list (None, a scalar, a dict) and any
\* identity keys and defaults, _normalize_for_comparison returns the value
\* unchanged.
C29_NonListUnchanged ==
    (pc = "normalizing") =>
        \A k \in 1..Len(hist) : ~IsList(hist[k].value) => hist[k].result = hist[k].value

\* A dict was normalised with identity keys and a default it lacks.
C29_Witness ==
    /\ pc = "normalizing" /\ Len(hist) = 1
    /\ hist[1].value = Port("net-a")
    /\ ctx.idempotency_keys = <<"subnet", "ip">>
    /\ ctx.defaults_map = [ip |-> AssignedIp]
    /\ hist[1].result = Port("net-a")

IsScalarList(x) == IsList(x) /\ \A i \in 1..Len(x.v) : x.v[i].t = "str"

\* C30: a list of hashable scalars normalised with no identity keys gives
\* the same result as its reverse and as any permutation of it; the empty
\* list gives the empty set.
C30_OrderInsensitive ==
    (pc = "normalizing" /\ Len(hist) > 0 /\ IsScalarList(ctx.value)
       /\ ctx.idempotency_keys = <<>>) =>
        /\ \A k \in 1..Len(hist) : hist[k].result = hist[1].result
        /\ Len(ctx.value.v) = 0 => hist[1].result = VSet({})

\* A list of three scalars and its reverse were normalised to one set.
C30_Witness ==
    /\ pc = "normalizing" /\ Len(hist) = 2
    /\ ctx.idempotency_keys = <<>>
    /\ hist[1].value = VList(<<VStr("a"), VStr("b"), VStr("c")>>)
    /\ hist[2].value = VList(Reverse(hist[1].value.v))
    /\ hist[1].result = hist[2].result
    /\ hist[1].result = VSet(Scalars)

IsDictList(x) == NonEmptyList(x) /\ \A i \in 1..Len(x.v) : IsDict(x.v[i])

\* b holds the items of a in some order, up to the fields outside keys.
PermutationOnKeys(a, b, keys) ==
    /\ Len(a) = Len(b)
    /\ \E perm \in Permutations(1..Len(a)) :
         \A i \in 1..Len(a) : \A k \in Range(keys) :
             DictGet(b[perm[i]].v, k) = DictGet(a[i].v, k)

\* item b is item a with keys it omits stated with the defaults' values.
StatesDefaults(a, b, defaults_map) ==
    /\ DOMAIN a \subseteq DOMAIN b
    /\ \A k \in DOMAIN b :
         IF k \in DOMAIN a THEN b[k] = a[k]
         ELSE k \in DOMAIN defaults_map /\ b[k] = defaults_map[k]

Backfilled(a, b, defaults_map) ==
    /\ Len(a) = Len(b)
    /\ \E perm \in Permutations(1..Len(a)) :
         \A i \in 1..Len(a) : StatesDefaults(a[i].v, b[perm[i]].v, defaults_map)

\* C31: two lists of objects that are permutations of each other on the
\* identity keys, whatever their other fields, normalise to equal results
\* with those keys; and a list whose item omits a key normalises to the
\* same result as the list whose item states the key with the value the
\* defaults map supplies.
C31_DictListsEquivalent ==
    (pc = "normalizing" /\ Len(hist) = 2 /\ IsDictList(hist[1].value)
       /\ IsDictList(hist[2].value) /\ Len(ctx.idempotency_keys) > 0) =>
        /\ PermutationOnKeys(hist[1].value.v, hist[2].value.v, ctx.idempotency_keys)
              => hist[2].result = hist[1].result
        /\ Backfilled(hist[1].value.v, hist[2].value.v, ctx.defaults_map)
              => hist[2].result = hist[1].result

\* Two ports, one without an address, were compared with the backend's
\* list in the other order that states the assigned address, under the
\* identity keys subnet and ip and the default for ip.
C31_Witness ==
    /\ pc = "normalizing" /\ Len(hist) = 2
    /\ ctx.idempotency_keys = <<"subnet", "ip">>
    /\ ctx.defaults_map = [ip |-> AssignedIp]
    /\ hist[1].value = VList(<<PortWithIp("net-a", "10.0.0.1"), Port("net-b")>>)
    /\ hist[2].value = VList(<<PortWithIp("net-b", AssignedIp),
                               PortWithIp("net-a", "10.0.0.1")>>)
    /\ hist[2].result = hist[1].result
    /\ hist[1].result.t = "set"

IsMixedList(x) ==
    /\ NonEmptyList(x)
    /\ \E i \in 1..Len(x.v) : IsDict(x.v[i])
    /\ \E i \in 1..Len(x.v) : ~IsDict(x.v[i])

\* C32: a non-empty list of objects normalised with no identity keys, and
\* a list that mixes objects with other items wherever the other item
\* stands, is returned as the list it was, by the runner's normaliser and
\* by the order runner's.
C32_NotAttempted ==
    (pc = "normalizing") =>
        \A k \in 1..Len(hist) :
            (\/ IsDictList(hist[k].value) /\ ctx.idempotency_keys = <<>>
             \/ IsMixedList(hist[k].value)) =>
                /\ hist[k].result = hist[k].value
                /\ hist[k].order_result = hist[k].value

\* A list whose second item is not an object was normalised with identity
\* keys, and then the list whose first item is not an object.
C32_Witness ==
    /\ pc = "normalizing" /\ Len(hist) = 2
    /\ ctx.idempotency_keys = <<"subnet">>
    /\ hist[1].value = VList(<<Port("net-a"), VStr("a")>>)
    /\ hist[2].value = VList(<<VStr("a"), Port("net-a")>>)
    /\ hist[1].result = hist[1].value
    /\ hist[2].result = hist[2].value

\* The run that has just ended and the run before it were both check-mode
\* runs, and both found the same backend.
CheckedTwice ==
    /\ pc \in {"exited", "failed"}
    /\ check_mode
    /\ Len(hist) > 0
    /\ hist[Len(hist)].check_mode
    /\ hist[Len(hist)].backend = backend
    /\ hist[Len(hist)].resource = resource

Alone(i) == RunAlone(params[i], FreshPairRunner, ctx.backend, MaxSteps)

\* C34: two runs for different target resources share no resolver cache,
\* plan or resource state: under every interleaving of their requests, a
\* run that has ended has built the plan and reports the result it builds
\* and reports when it runs alone.
C34_RunsIndependent ==
    \A i \in 1..2 :
        pc[i] \in {"exited", "failed"} =>
            /\ plan[i] = Alone(i).plan
            /\ outcome[i] = Alone(i).outcome
            /\ pc[i] = Alone(i).pc

\* The second run resolved its flavor within its own offering after the
\* first run had resolved another offering, and both created their
\* resources.
C34_Witness ==
    /\ pc = <<"exited", "exited">>
    /\ params[1].offering = "off" /\ params[2].offering = "uuid-o2"
    /\ params[1].flavor = "small" /\ params[2].flavor = "small"
    /\ Len(plan[1]) = 1 /\ Len(plan[2]) = 1
    /\ plan[1][1].write = "order" /\ plan[2][1].write = "order"
    /\ plan[1][1].flavor # plan[2][1].flavor
    /\ Len(backend) = 2
    /\ backend[1].name = "vm-b"

\* The current object restricted to the keys the user's objects state.
OnUserKeys(item, value) ==
    [k \in (DOMAIN item.v) \cap UserProvidedKeys(value) |-> item.v[k]]

\* The current list holds, item by item, what the desired list resolves
\* to, on the keys the user supplied.
AgreesOnUserKeys(ai, value, current) ==
    /\ Len(current.v) = Len(value.v)
    /\ \A i \in 1..Len(current.v) :
          OnUserKeys(current.v[i], value) = resolve(ai, value).v[i].v

\* C35: when the desired and the current value are both non-empty lists of
\* objects and the current list agrees with the desired one on the keys
\* the user supplied, no action command is planned for the parameter,
\* whatever the current objects hold under the keys the user omitted.
C35_KeyFiltering ==
    (pc = "mode" /\ planner = "plan_update") =>
        \A k \in 1..Len(ctx.update_actions) :
            LET ai == ctx.update_actions[k]
                value == params[ai.param]
                current == The(resource)[ai.compare_key]
            IN  (IsDictList(value) /\ IsDictList(current)
                   /\ AgreesOnUserKeys(ai, value, current)) =>
                    ActionPositions(plan, ai.path) = {}

\* The user asked for a port on net-a without an address; the backend
\* holds that port with the address and the mac it assigned, the address
\* is an identity key with no default, and no action is planned.
C35_Witness ==
    /\ pc = "mode" /\ planner = "plan_update"
    /\ ctx.update_actions[1].idempotency_keys = <<"subnet", "ip">>
    /\ ctx.update_actions[1].defaults_map = NoDefaults
    /\ params.items = VList(<<Port("net-a")>>)
    /\ The(resource).items
         = VList(<<VDict([subnet |-> "/net/a/", ip |-> AssignedIp, mac |-> "m"])>>)
    /\ ActionPositions(plan, "update_items") = {}

\* A step in which an update was sent and answered without an error, and
\* the body of its response.
UpdateAnswered ==
    \/ pc = "execute" /\ plan[idx].command_type = "update" /\ response' # response
    \/ pc = "mode" /\ planner' = "update" /\ response' # response

UpdateResponse == IF pc = "execute" THEN response'[idx] ELSE response'[1]

\* C36: after an update executes, the runner's resource is the previous
\* resource with every key of the PATCH response replaced by the
\* response's value; a key the response does not carry keeps its value,
\* and an empty response leaves the resource as it was.
C36_ResponseMerged ==
    [][UpdateAnswered =>
         resource' = IF Truthy(UpdateResponse)
                     THEN Some(DictUpdate(The(resource), The(UpdateResponse)))
                     ELSE resource]_vars

\* C37: for the same parameters and the same backend state, the changed
\* flag a check-mode run reports equals the changed flag an apply-mode run
\* reports, for scalar update fields and action-managed parameters alike.
C37_CheckPredictsApply ==
    (pc = "exited" /\ Len(hist) = 2 /\ hist[1].check_mode /\ ~hist[2].check_mode) =>
        hist[1].changed = hist[2].changed

\* C38: every call of resolve ends by returning a value or by failing the
\* run, for every resolver configuration, including those in which the
\* filter_by rules of two parameters name each other.
C38_ResolveTerminates == <>(pc \in {"done", "failed"})
SourceLinkedToTarget ==
    \E v \in Range(backend.volume), t \in Range(backend.instance) :
       /\ v.name = params.volume
       /\ t.name = params.instance
       /\ v.instance = t.url

\* The plan the runner has just built is a single link command.
OneLink(p) == Len(p) = 1 /\ p[1].command_type = "action" /\ p[1].path = "link_op_path"

\* The plan the runner has just built is a single unlink command.
OneUnlink(p) == Len(p) = 1 /\ p[1].command_type = "action" /\ p[1].path = "unlink_op_path"

\* The first run applied a non-empty plan and exited, and the backend has
\* applied every request it accepted.
AppliedBefore ==
    /\ run = 2
    /\ hist[1].outcome.kind = "exit"
    /\ ~hist[1].check_mode
    /\ Len(hist[1].plan) > 0
    /\ orders = <<>>

\* C40: the plan LinkRunner.run builds is one link command exactly when
\* state is present and the source is not linked to the requested target,
\* one unlink command exactly when state is absent and it is linked to it,
\* and empty otherwise; the run that follows a successful apply whose
\* request the backend applied builds an empty plan.
C40_LinkPlan ==
    [][(pc = "check_existence" /\ pc' = "mode") =>
         /\ OneLink(plan') <=> (params.state = "present" /\ ~SourceLinkedToTarget)
         /\ OneUnlink(plan') <=> (params.state = "absent" /\ SourceLinkedToTarget)
         /\ (~OneLink(plan') /\ ~OneUnlink(plan')) => plan' = <<>>
         /\ AppliedBefore => plan' = <<>>]_vars

\* The second run has built its plan after the first one attached the
\* volume and the backend applied the request.
C40_Witness ==
    /\ pc = "mode"
    /\ Len(hist) = 1
    /\ hist[1].outcome.kind = "exit"
    /\ ~hist[1].check_mode
    /\ OneLink(hist[1].plan)
    /\ orders = <<>>
    /\ SourceLinkedToTarget
    /\ plan = <<>>

====
